---- MODULE Spec2Model ----
(***************************************************************************)
(* TaskFlow API: the HTTP handlers (users, projects, tasks), the JWT       *)
(* middleware and the login handler, over the three tables of the         *)
(* relational schema as GORM reads and writes them.                        *)
(*                                                                         *)
(* Rows are kept in creation order; a row's id is its position in its      *)
(* table (the database draws a fresh UUID for every insert), so an id      *)
(* beyond the table's length is a well-formed UUID that names no row.      *)
(* A nullable column or a Go pointer is <<>> (NULL / nil) or <<v>>.        *)
(* Of the string columns that the handlers treat alike only one is kept    *)
(* per table (first_name for last_name/avatar_url, name for                *)
(* description/color, title for description/priority/due_date).            *)
(***************************************************************************)
EXTENDS Integers, Sequences, FiniteSets, TLC

VARIABLES
    now,        \* the wall clock, in ticks (time.Now())
    users,      \* table users
    projects,   \* table projects
    tasks,      \* table tasks
    tokens,     \* the tokens GenerateJWT has signed so far
    last,       \* the request being answered and its response, or Idle
    ops,        \* how many steps so far changed the clock, a table or tokens
    inflight,   \* the requests being served statement by statement, per slot
    shutdown,   \* where the signal goroutine of main stands
    dbOpen,     \* the connection pool *sql.DB has not been closed
    listening   \* app.Listen is accepting and serving requests

vars == <<now, users, projects, tasks, tokens, last, ops,
          inflight, shutdown, dbOpen, listening>>

\* The process around the handlers: requests in flight and the shutdown.
process == <<inflight, shutdown, dbOpen, listening>>

-----------------------------------------------------------------------------
(* Bounds of the model *)

MaxOps == 6              \* Spec: steps that change the clock, a table or tokens
ListMaxProjects == 11    \* SpecList: live projects of one owner
ListMaxTasks == 2        \* SpecList: tasks created
TicksPerSecond == 2      \* clock ticks in one second, the precision of exp
MaxInFlight == 2         \* SpecRace, SpecShutdown, SpecUpdate: requests served at once
MaxRaceRequests == 4     \* SpecRace: requests taken up in one run
MaxUpdateRequests == 3   \* SpecUpdate: requests taken up in one run
JWTExpiry == 3           \* cfg.JWT.Expiry, in ticks

-----------------------------------------------------------------------------
(* Program constants *)

DefaultPage == 1
DefaultLimit == 10
MinLimit == 1
MaxLimit == 100
MinPasswordLen == 6

StatusOK == 200
StatusCreated == 201
StatusBadRequest == 400
StatusUnauthorized == 401
StatusForbidden == 403
StatusNotFound == 404
StatusConflict == 409
StatusInternalServerError == 500

uuidNil == 0

nil == <<>>
Ptr(v) == <<v>>
Deref(p) == p[1]

ProjectStatusActive == "active"
ProjectStatuses == {"active", "archived", "completed"}
TaskStatusTodo == "todo"
TaskStatusDone == "done"
TaskStatuses == {"todo", "in_progress", "done", "cancelled"}

-----------------------------------------------------------------------------
(* The database as the handlers see it *)

DB == [users |-> users, projects |-> projects, tasks |-> tasks]

Ids(table) == 1..Len(table)

\* gorm.DeletedAt: every query on a model adds "<table>.deleted_at IS NULL".
Live(table) == {i \in Ids(table) : table[i].deleted_at = nil}

\* The rows of `ids` in primary-key order, as a sequence of ids.
RECURSIVE SortedIds(_)
SortedIds(ids) ==
    IF ids = {} THEN <<>>
    ELSE LET m == CHOOSE x \in ids : \A y \in ids : x <= y
         IN <<m>> \o SortedIds(ids \ {m})

ErrorResponse(status, error, message) ==
    [status |-> status,
     body |-> [error |-> error, message |-> message, code |-> status]]

SuccessResponse(status, message, data) ==
    [status |-> status, body |-> [message |-> message, data |-> data]]


ListResponse(data, page, limit, total, totalPages) ==
    [status |-> StatusOK,
     body |-> [data |-> data,
               pagination |-> [page |-> page, limit |-> limit,
                               total |-> total, total_pages |-> totalPages]]]

\* What a handler hands back: the database after it and the response.
Out(db, resp) == [db |-> db, resp |-> resp]

\* uuid.Parse(c.Params("id")): a path parameter that is no UUID is NotAUUID.
NotAUUID == -1
uuidParse(id) == id # NotAUUID

InvalidID(db, message) ==
    Out(db, ErrorResponse(StatusBadRequest, "Bad Request", message))

\* c.BodyParser(&req): a body that does not parse is Unparsable; a field the
\* body leaves out has its zero value.
Unparsable == [unparsable |-> TRUE]
BodyParser(body) == "unparsable" \notin DOMAIN body

InvalidBody(db) ==
    Out(db, ErrorResponse(StatusBadRequest, "Bad Request", "Invalid request body"))

-----------------------------------------------------------------------------
(* Passwords, e-mail addresses, validation *)

\* A password is its sequence of characters; an e-mail address is
\* <<local part, domain>>, and any other sequence is not an address.
\* bcrypt is one-way and salted: the hash yields nothing but the comparison.
GenerateFromPassword(pw) == [bcrypt |-> pw]
CompareHashAndPassword(hash, pw) == hash.bcrypt = pw

IsEmail(e) == Len(e) = 2 /\ e[1] # "" /\ e[2] # ""

\* validate:"required,email" / "required,min=6" / "required"
ValidUserCreateRequest(req) ==
    /\ req.email # <<>> /\ IsEmail(req.email)
    /\ req.password # <<>> /\ Len(req.password) >= MinPasswordLen
    /\ req.first_name # ""

-----------------------------------------------------------------------------
(* Tokens and the JWT middleware *)

\* jwt.NewNumericDate truncates to jwt.TimePrecision (one second).
NewNumericDate(t) == (t \div TicksPerSecond) * TicksPerSecond

GenerateJWT(uid, user, t) ==
    [user_id |-> uid, email |-> user.email,
     exp |-> NewNumericDate(t + JWTExpiry)]

NoHeader == [kind |-> "none"]
BasicHeader == [kind |-> "basic"]
Bearer(token, signed) == [kind |-> "bearer", token |-> token, signed |-> signed]

\* The parse with the signature left unverified.
ParseWithClaimsOK_Unverified(hdr, t) == t < hdr.token.exp

\* The parse with the token refused one second early.
ParseWithClaimsOK_Early(hdr, t) == hdr.signed /\ t + TicksPerSecond < hdr.token.exp

\* jwt.ParseWithClaims: the signature must verify under cfg.JWT.Secret and
\* the validator wants now.Before(exp).
ParseWithClaimsOK(hdr, t) == hdr.signed /\ t < hdr.token.exp

JWTMiddleware(hdr, t) ==
    IF hdr.kind = "none"
    THEN [ok |-> FALSE, user_id |-> uuidNil,
          resp |-> ErrorResponse(StatusUnauthorized, "Unauthorized",
                                 "Missing authorization header")]
    ELSE IF hdr.kind # "bearer"
    THEN [ok |-> FALSE, user_id |-> uuidNil,
          resp |-> ErrorResponse(StatusUnauthorized, "Unauthorized",
                                 "Invalid authorization header format")]
    ELSE IF ~ParseWithClaimsOK(hdr, t)
    THEN [ok |-> FALSE, user_id |-> uuidNil,
          resp |-> ErrorResponse(StatusUnauthorized, "Unauthorized",
                                 "Invalid token")]
    ELSE IF hdr.token.exp < t
    THEN [ok |-> FALSE, user_id |-> uuidNil,
          resp |-> ErrorResponse(StatusUnauthorized, "Unauthorized",
                                 "Token expired")]
    ELSE [ok |-> TRUE, user_id |-> hdr.token.user_id,
          resp |-> ErrorResponse(StatusOK, "", "")]

-----------------------------------------------------------------------------
(* Users *)

UserToResponse(db, id) ==
    [id |-> id, email |-> db.users[id].email,
     first_name |-> db.users[id].first_name,
     is_active |-> db.users[id].is_active]

\* Where("email = ?", req.Email).First(&existingUser) finds a row.
EmailTaken(db, email) == \E i \in Live(db.users) : db.users[i].email = email

UserConflict(db) ==
    Out(db, ErrorResponse(StatusConflict, "Conflict",
                          "User with this email already exists"))

\* db.Create(&user) and the answer that follows it. users.email is UNIQUE
\* over every row, soft-deleted ones too.
InsertUser(db, req) ==
    IF \E i \in Ids(db.users) : db.users[i].email = req.email
    THEN Out(db, ErrorResponse(StatusInternalServerError,
                               "Internal Server Error", "Failed to create user"))
    ELSE LET row == [email |-> req.email,
                     password_hash |-> GenerateFromPassword(req.password),
                     first_name |-> req.first_name,
                     is_active |-> TRUE,
                     deleted_at |-> nil]
             db2 == [db EXCEPT !.users = Append(@, row)]
         IN Out(db2, SuccessResponse(StatusCreated, "User created successfully",
                                     UserToResponse(db2, Len(db2.users))))

CreateUser(db, req) ==
    IF ~BodyParser(req) THEN InvalidBody(db) ELSE
    IF ~ValidUserCreateRequest(req)
    THEN Out(db, ErrorResponse(StatusBadRequest, "Validation Error", "invalid"))
    ELSE IF EmailTaken(db, req.email) THEN UserConflict(db)
    ELSE InsertUser(db, req)


\* c.Query(name, default) and strconv.Atoi, the error dropped: a parameter
\* that is no number reads as 0.
Query(param, default) == IF param = nil THEN default ELSE Deref(param)

\* The parameters with the limit clamped to the range.
Pagination_Clamped(pageQ, limitQ) ==
    LET p0 == Query(pageQ, DefaultPage)
        l0 == Query(limitQ, DefaultLimit)
        page == IF p0 < 1 THEN 1 ELSE p0
        limit == IF l0 < MinLimit THEN MinLimit
                 ELSE IF l0 > MaxLimit THEN MaxLimit ELSE l0
    IN [page |-> page, limit |-> limit, offset |-> (page - 1) * limit]

Pagination(pageQ, limitQ) ==
    LET p0 == Query(pageQ, DefaultPage)
        l0 == Query(limitQ, DefaultLimit)
        page == IF p0 < 1 THEN 1 ELSE p0
        limit == IF l0 < MinLimit \/ l0 > MaxLimit THEN DefaultLimit ELSE l0
    IN [page |-> page, limit |-> limit, offset |-> (page - 1) * limit]

\* The division rounded down.
TotalPages_Floor(total, limit) == total \div limit

\* int(math.Ceil(float64(total) / float64(limit)))
TotalPages(total, limit) == (total + limit - 1) \div limit

\* Offset(offset).Limit(limit) over the rows in primary-key order.
Window(ids, pg) ==
    LET s == SortedIds(ids)
        hi == IF pg.offset + pg.limit < Len(s) THEN pg.offset + pg.limit ELSE Len(s)
    IN SubSeq(s, pg.offset + 1, hi)

GetUsers(db, pageQ, limitQ) ==
    LET pg == Pagination(pageQ, limitQ)
        total == Cardinality(Live(db.users))
        rows == Window(Live(db.users), pg)
    IN Out(db, ListResponse([k \in 1..Len(rows) |-> UserToResponse(db, rows[k])],
                            pg.page, pg.limit, total, TotalPages(total, pg.limit)))

GetUser(db, id) ==
    IF ~uuidParse(id) THEN InvalidID(db, "Invalid user ID") ELSE
    IF id \notin Live(db.users)
    THEN Out(db, ErrorResponse(StatusNotFound, "Not Found", "User not found"))
    ELSE Out(db, SuccessResponse(StatusOK, "User retrieved successfully",
                                 UserToResponse(db, id)))

\* UpdateUser without the comparison of the path id with the caller.
UpdateUser_NoSelfCheck(db, caller, id, req) ==
    IF ~uuidParse(id) THEN InvalidID(db, "Invalid user ID")
    ELSE IF ~BodyParser(req) THEN InvalidBody(db)
    ELSE IF id \notin Live(db.users)
    THEN Out(db, ErrorResponse(StatusNotFound, "Not Found", "User not found"))
    ELSE LET u0 == db.users[id]
             u1 == IF req.first_name # "" THEN [u0 EXCEPT !.first_name = req.first_name]
                   ELSE u0
             u2 == IF req.is_active # nil THEN [u1 EXCEPT !.is_active = Deref(req.is_active)]
                   ELSE u1
             db2 == [db EXCEPT !.users[id] = u2]
         IN Out(db2, SuccessResponse(StatusOK, "User updated successfully",
                                     UserToResponse(db2, id)))

\* UpdateUser with a lookup that lacks the deleted_at IS NULL scope.
UpdateUser_Unscoped(db, caller, id, req) ==
    IF ~uuidParse(id) THEN InvalidID(db, "Invalid user ID") ELSE
    IF caller # id
    THEN Out(db, ErrorResponse(StatusForbidden, "Forbidden",
                               "You can only update your own profile"))
    ELSE IF ~BodyParser(req) THEN InvalidBody(db)
    ELSE IF id \notin Ids(db.users)
    THEN Out(db, ErrorResponse(StatusNotFound, "Not Found", "User not found"))
    ELSE LET u0 == db.users[id]
             u1 == IF req.first_name # "" THEN [u0 EXCEPT !.first_name = req.first_name]
                   ELSE u0
             u2 == IF req.is_active # nil THEN [u1 EXCEPT !.is_active = Deref(req.is_active)]
                   ELSE u1
             db2 == [db EXCEPT !.users[id] = u2]
         IN Out(db2, SuccessResponse(StatusOK, "User updated successfully",
                                     UserToResponse(db2, id)))

UpdateUser(db, caller, id, req) ==
    IF ~uuidParse(id) THEN InvalidID(db, "Invalid user ID") ELSE
    IF caller # id
    THEN Out(db, ErrorResponse(StatusForbidden, "Forbidden",
                               "You can only update your own profile"))
    ELSE IF ~BodyParser(req) THEN InvalidBody(db)
    ELSE IF id \notin Live(db.users)
    THEN Out(db, ErrorResponse(StatusNotFound, "Not Found", "User not found"))
    ELSE LET u0 == db.users[id]
             u1 == IF req.first_name # "" THEN [u0 EXCEPT !.first_name = req.first_name]
                   ELSE u0
             u2 == IF req.is_active # nil THEN [u1 EXCEPT !.is_active = Deref(req.is_active)]
                   ELSE u1
             db2 == [db EXCEPT !.users[id] = u2]
         IN Out(db2, SuccessResponse(StatusOK, "User updated successfully",
                                     UserToResponse(db2, id)))

\* DeleteUser as a DELETE of the row would act on the tasks: their
\* assignee_id REFERENCES users(id) ON DELETE SET NULL.
DeleteUser_SetNull(db, caller, id, t) ==
    IF ~uuidParse(id) THEN InvalidID(db, "Invalid user ID") ELSE
    IF caller # id
    THEN Out(db, ErrorResponse(StatusForbidden, "Forbidden",
                               "You can only delete your own profile"))
    ELSE LET db2 == IF id \in Live(db.users)
                    THEN [db EXCEPT
                            !.users[id].deleted_at = Ptr(t),
                            !.tasks = [k \in Ids(db.tasks) |->
                                         IF db.tasks[k].assignee_id = Ptr(id)
                                         THEN [db.tasks[k] EXCEPT !.assignee_id = nil]
                                         ELSE db.tasks[k]]]
                    ELSE db
         IN Out(db2, SuccessResponse(StatusOK, "User deleted successfully", nil))

\* db.Delete(&models.User{}, id): UPDATE users SET deleted_at = now WHERE id = ?
\* AND deleted_at IS NULL. It reports no error when no row matches.
DeleteUser(db, caller, id, t) ==
    IF ~uuidParse(id) THEN InvalidID(db, "Invalid user ID") ELSE
    IF caller # id
    THEN Out(db, ErrorResponse(StatusForbidden, "Forbidden",
                               "You can only delete your own profile"))
    ELSE LET db2 == IF id \in Live(db.users)
                    THEN [db EXCEPT !.users[id].deleted_at = Ptr(t)]
                    ELSE db
         IN Out(db2, SuccessResponse(StatusOK, "User deleted successfully", nil))

\* The login without the is_active condition of the lookup.
LoginHandler_Inactive(db, req, t) ==
    IF ~BodyParser(req) THEN InvalidBody(db) ELSE
    LET found == {i \in Live(db.users) :
                      db.users[i].email = req.email}
    IN IF found = {}
       THEN Out(db, ErrorResponse(StatusUnauthorized, "Unauthorized",
                                  "Invalid credentials"))
       ELSE LET id == CHOOSE i \in found : \A j \in found : i <= j
            IN IF ~CompareHashAndPassword(db.users[id].password_hash, req.password)
               THEN Out(db, ErrorResponse(StatusUnauthorized, "Unauthorized",
                                          "Invalid credentials"))
               ELSE Out(db, SuccessResponse(StatusOK, "Login successful",
                            [token |-> GenerateJWT(id, db.users[id], t),
                             user |-> UserToResponse(db, id)]))

LoginHandler(db, req, t) ==
    IF ~BodyParser(req) THEN InvalidBody(db) ELSE
    LET found == {i \in Live(db.users) :
                      db.users[i].email = req.email /\ db.users[i].is_active}
    IN IF found = {}
       THEN Out(db, ErrorResponse(StatusUnauthorized, "Unauthorized",
                                  "Invalid credentials"))
       ELSE LET id == CHOOSE i \in found : \A j \in found : i <= j
            IN IF ~CompareHashAndPassword(db.users[id].password_hash, req.password)
               THEN Out(db, ErrorResponse(StatusUnauthorized, "Unauthorized",
                                          "Invalid credentials"))
               ELSE Out(db, SuccessResponse(StatusOK, "Login successful",
                            [token |-> GenerateJWT(id, db.users[id], t),
                             user |-> UserToResponse(db, id)]))


-----------------------------------------------------------------------------
(* Projects *)

\* A preload that reads soft-deleted rows too.
PreloadUser_Unscoped(db, uid) ==
    IF uid \in Ids(db.users) THEN Ptr(UserToResponse(db, uid)) ELSE nil

\* Preload runs its own query on the related model and so leaves out
\* soft-deleted rows; ToResponse drops a relation whose ID is uuid.Nil.
PreloadUser(db, uid) ==
    IF uid \in Live(db.users) THEN Ptr(UserToResponse(db, uid)) ELSE nil

LiveTasksOf(db, pid) == {k \in Live(db.tasks) : db.tasks[k].project_id = pid}

\* owner / tasks: whether the handler preloaded "Owner" / "Tasks".
ProjectToResponse(db, id, owner, withTasks) ==
    [id |-> id, name |-> db.projects[id].name,
     owner_id |-> db.projects[id].owner_id,
     status |-> db.projects[id].status,
     owner |-> IF owner THEN PreloadUser(db, db.projects[id].owner_id) ELSE nil,
     tasks_count |-> IF withTasks THEN Cardinality(LiveTasksOf(db, id)) ELSE 0]

PreloadProject(db, pid) ==
    IF pid \in Live(db.projects)
    THEN Ptr(ProjectToResponse(db, pid, FALSE, FALSE)) ELSE nil

\* project: whether the handler preloaded "Project" ("Assignee" always is).
TaskToResponse(db, id, project) ==
    [id |-> id, title |-> db.tasks[id].title,
     project_id |-> db.tasks[id].project_id,
     assignee_id |-> db.tasks[id].assignee_id,
     status |-> db.tasks[id].status,
     completed_at |-> db.tasks[id].completed_at,
     project |-> IF project THEN PreloadProject(db, db.tasks[id].project_id) ELSE nil,
     assignee |-> IF db.tasks[id].assignee_id = nil THEN nil
                  ELSE PreloadUser(db, Deref(db.tasks[id].assignee_id))]

\* The lookup without its owner_id condition.
OwnedProject_AnyOwner(db, caller, id) == id \in Live(db.projects)

\* The lookup without the deleted_at IS NULL scope.
OwnedProject_Unscoped(db, caller, id) ==
    id \in Ids(db.projects) /\ db.projects[id].owner_id = caller

\* Where("id = ? AND owner_id = ?", id, caller).First(&project)
OwnedProject(db, caller, id) ==
    id \in Live(db.projects) /\ db.projects[id].owner_id = caller

ProjectNotFound(db) ==
    Out(db, ErrorResponse(StatusNotFound, "Not Found", "Project not found"))

\* CreateProject with an owner that is not taken from the token.
CreateProject_FirstUser(db, caller, req) ==
    IF ~BodyParser(req) THEN InvalidBody(db) ELSE
    IF req.name = ""
    THEN Out(db, ErrorResponse(StatusBadRequest, "Validation Error", "invalid"))
    \* projects.owner_id REFERENCES users(id)
    ELSE IF caller \notin Ids(db.users)
    THEN Out(db, ErrorResponse(StatusInternalServerError, "Internal Server Error",
                               "Failed to create project"))
    ELSE LET row == [name |-> req.name, owner_id |-> 1,
                     status |-> ProjectStatusActive, deleted_at |-> nil]
             db2 == [db EXCEPT !.projects = Append(@, row)]
         IN Out(db2, SuccessResponse(StatusCreated, "Project created successfully",
                        ProjectToResponse(db2, Len(db2.projects), TRUE, FALSE)))

CreateProject(db, caller, req) ==
    IF ~BodyParser(req) THEN InvalidBody(db) ELSE
    IF req.name = ""
    THEN Out(db, ErrorResponse(StatusBadRequest, "Validation Error", "invalid"))
    \* projects.owner_id REFERENCES users(id)
    ELSE IF caller \notin Ids(db.users)
    THEN Out(db, ErrorResponse(StatusInternalServerError, "Internal Server Error",
                               "Failed to create project"))
    ELSE LET row == [name |-> req.name, owner_id |-> caller,
                     status |-> ProjectStatusActive, deleted_at |-> nil]
             db2 == [db EXCEPT !.projects = Append(@, row)]
         IN Out(db2, SuccessResponse(StatusCreated, "Project created successfully",
                        ProjectToResponse(db2, Len(db2.projects), TRUE, FALSE)))

\* GetProjects without the owner_id condition.
GetProjects_AllOwners(db, caller, pageQ, limitQ) ==
    LET pg == Pagination(pageQ, limitQ)
        mine == Live(db.projects)
        total == Cardinality(mine)
        rows == Window(mine, pg)
    IN Out(db, ListResponse(
                 [k \in 1..Len(rows) |-> ProjectToResponse(db, rows[k], TRUE, TRUE)],
                 pg.page, pg.limit, total, TotalPages(total, pg.limit)))

GetProjects(db, caller, pageQ, limitQ) ==
    LET pg == Pagination(pageQ, limitQ)
        mine == {i \in Live(db.projects) : db.projects[i].owner_id = caller}
        total == Cardinality(mine)
        rows == Window(mine, pg)
    IN Out(db, ListResponse(
                 [k \in 1..Len(rows) |-> ProjectToResponse(db, rows[k], TRUE, TRUE)],
                 pg.page, pg.limit, total, TotalPages(total, pg.limit)))

GetProject(db, caller, id) ==
    IF ~uuidParse(id) THEN InvalidID(db, "Invalid project ID") ELSE
    IF ~OwnedProject(db, caller, id) THEN ProjectNotFound(db)
    ELSE LET ts == SortedIds(LiveTasksOf(db, id))
         IN Out(db, SuccessResponse(StatusOK, "Project retrieved successfully",
                      [project |-> ProjectToResponse(db, id, TRUE, TRUE),
                       tasks |-> [k \in 1..Len(ts) |-> TaskToResponse(db, ts[k], FALSE)]]))

UpdateProject(db, caller, id, req) ==
    IF ~uuidParse(id) THEN InvalidID(db, "Invalid project ID") ELSE
    IF ~BodyParser(req) THEN InvalidBody(db) ELSE
    IF ~OwnedProject(db, caller, id) THEN ProjectNotFound(db)
    ELSE LET p0 == db.projects[id]
             p1 == IF req.name # "" THEN [p0 EXCEPT !.name = req.name] ELSE p0
             p2 == IF req.status # nil THEN [p1 EXCEPT !.status = Deref(req.status)]
                   ELSE p1
             db2 == [db EXCEPT !.projects[id] = p2]
         IN \* the column is of the enum type project_status
            IF p2.status \notin ProjectStatuses
            THEN Out(db, ErrorResponse(StatusInternalServerError,
                           "Internal Server Error", "Failed to update project"))
            ELSE Out(db2, SuccessResponse(StatusOK, "Project updated successfully",
                            ProjectToResponse(db2, id, TRUE, FALSE)))

\* Project has a gorm.DeletedAt: Delete is UPDATE projects SET deleted_at = now
\* WHERE id = ? AND owner_id = ? AND deleted_at IS NULL. No row is removed, so
\* the foreign keys' ON DELETE actions never run and the tasks stay as they are.
DeleteProject(db, caller, id, t) ==
    IF ~uuidParse(id) THEN InvalidID(db, "Invalid project ID") ELSE
    IF ~OwnedProject(db, caller, id) THEN ProjectNotFound(db)
    ELSE Out([db EXCEPT !.projects[id].deleted_at = Ptr(t)],
             SuccessResponse(StatusOK, "Project deleted successfully", nil))


-----------------------------------------------------------------------------
(* Tasks *)

\* Joins("JOIN projects ON tasks.project_id = projects.id")
\*   .Where("tasks.id = ? AND projects.owner_id = ?", id, caller).First(&task)
\* The model queried is Task, so GORM adds tasks.deleted_at IS NULL and nothing
\* about projects: the hand-written JOIN matches a soft-deleted project too.
OwnedTask(db, caller, id) ==
    /\ id \in Live(db.tasks)
    /\ db.tasks[id].project_id \in Ids(db.projects)
    /\ db.projects[db.tasks[id].project_id].owner_id = caller

TaskNotFound(db) ==
    Out(db, ErrorResponse(StatusNotFound, "Not Found", "Task not found"))

\* A save that runs no hook.
BeforeUpdate_Skipped(task, t) == task

\* The hook with a bare else in place of its else-if on the status.
BeforeUpdate_ElseClears(task, t) ==
    IF task.status = TaskStatusDone /\ task.completed_at = nil
    THEN [task EXCEPT !.completed_at = Ptr(t)]
    ELSE [task EXCEPT !.completed_at = nil]

\* Task.BeforeUpdate, which db.Save runs before it writes the row.
BeforeUpdate(task, t) ==
    IF task.status = TaskStatusDone /\ task.completed_at = nil
    THEN [task EXCEPT !.completed_at = Ptr(t)]
    ELSE IF task.status # TaskStatusDone
    THEN [task EXCEPT !.completed_at = nil]
    ELSE task

\* What PostgreSQL refuses of a tasks row: a status outside the enum
\* task_status, an assignee_id that is no users.id.
TaskRowAccepted(db, task) ==
    /\ task.status \in TaskStatuses
    /\ task.assignee_id # nil => Deref(task.assignee_id) \in Ids(db.users)

\* Preload("Project").Preload("Assignee").First(&task, task.ID) and the 201.
LoadTask(db, id) ==
    SuccessResponse(StatusCreated, "Task created successfully",
                    TaskToResponse(db, id, TRUE))

\* db.Create(&task), then the load of what was created.
InsertTask(db, pid, req) ==
    LET row == [title |-> req.title, project_id |-> pid,
                assignee_id |-> req.assignee_id,
                status |-> TaskStatusTodo,
                completed_at |-> nil, deleted_at |-> nil]
        db2 == [db EXCEPT !.tasks = Append(@, row)]
    IN IF ~TaskRowAccepted(db, row)
       THEN Out(db, ErrorResponse(StatusInternalServerError,
                      "Internal Server Error", "Failed to create task"))
       ELSE Out(db2, LoadTask(db2, Len(db2.tasks)))

CreateTask(db, caller, pid, req) ==
    IF ~uuidParse(pid) THEN InvalidID(db, "Invalid project ID") ELSE
    IF ~BodyParser(req) THEN InvalidBody(db) ELSE
    IF req.title = ""
    THEN Out(db, ErrorResponse(StatusBadRequest, "Validation Error", "invalid"))
    ELSE IF ~OwnedProject(db, caller, pid) THEN ProjectNotFound(db)
    ELSE InsertTask(db, pid, req)

GetProjectTasks(db, caller, pid, pageQ, limitQ) ==
    IF ~uuidParse(pid) THEN InvalidID(db, "Invalid project ID") ELSE
    IF ~OwnedProject(db, caller, pid) THEN ProjectNotFound(db)
    ELSE LET pg == Pagination(pageQ, limitQ)
             total == Cardinality(LiveTasksOf(db, pid))
             rows == Window(LiveTasksOf(db, pid), pg)
         IN Out(db, ListResponse(
                      [k \in 1..Len(rows) |-> TaskToResponse(db, rows[k], TRUE)],
                      pg.page, pg.limit, total, TotalPages(total, pg.limit)))

GetTask(db, caller, id) ==
    IF ~uuidParse(id) THEN InvalidID(db, "Invalid task ID") ELSE
    IF ~OwnedTask(db, caller, id) THEN TaskNotFound(db)
    ELSE Out(db, SuccessResponse(StatusOK, "Task retrieved successfully",
                                 TaskToResponse(db, id, TRUE)))

\* db.Save(&task): the hook, then the row is written whole.
SaveTask(db, id, task, t, success, failure) ==
    LET saved == BeforeUpdate(task, t)
        db2 == [db EXCEPT !.tasks[id] = saved]
    IN IF ~TaskRowAccepted(db, saved)
       THEN Out(db, ErrorResponse(StatusInternalServerError,
                                  "Internal Server Error", failure))
       ELSE Out(db2, SuccessResponse(StatusOK, success,
                                     TaskToResponse(db2, id, TRUE)))

\* UpdateTask that copies the request's title and assignee whether present or
\* not.
UpdateTask_Overwrite(db, caller, id, req, t) ==
    IF ~uuidParse(id) THEN InvalidID(db, "Invalid task ID") ELSE
    IF ~BodyParser(req) THEN InvalidBody(db) ELSE
    IF ~OwnedTask(db, caller, id) THEN TaskNotFound(db)
    ELSE LET t0 == db.tasks[id]
             t2 == [t0 EXCEPT !.title = req.title, !.assignee_id = req.assignee_id]
             t3 == IF req.status # nil THEN [t2 EXCEPT !.status = Deref(req.status)]
                   ELSE t2
         IN SaveTask(db, id, t3, t, "Task updated successfully",
                     "Failed to update task")

UpdateTask(db, caller, id, req, t) ==
    IF ~uuidParse(id) THEN InvalidID(db, "Invalid task ID") ELSE
    IF ~BodyParser(req) THEN InvalidBody(db) ELSE
    IF ~OwnedTask(db, caller, id) THEN TaskNotFound(db)
    ELSE LET t0 == db.tasks[id]
             t1 == IF req.title # "" THEN [t0 EXCEPT !.title = req.title] ELSE t0
             t2 == IF req.assignee_id # nil
                   THEN [t1 EXCEPT !.assignee_id = req.assignee_id] ELSE t1
             t3 == IF req.status # nil THEN [t2 EXCEPT !.status = Deref(req.status)]
                   ELSE t2
         IN SaveTask(db, id, t3, t, "Task updated successfully",
                     "Failed to update task")

UpdateTaskStatus(db, caller, id, req, t) ==
    IF ~uuidParse(id) THEN InvalidID(db, "Invalid task ID") ELSE
    IF ~BodyParser(req) THEN InvalidBody(db) ELSE
    IF req.status = ""
    THEN Out(db, ErrorResponse(StatusBadRequest, "Validation Error", "invalid"))
    ELSE IF ~OwnedTask(db, caller, id) THEN TaskNotFound(db)
    ELSE SaveTask(db, id, [db.tasks[id] EXCEPT !.status = req.status], t,
                  "Task status updated successfully",
                  "Failed to update task status")

\* db.Joins(...).Where("tasks.id = ? AND projects.owner_id = ?", ...)
\*   .Delete(&models.Task{})
\* GORM builds Joins into SELECT statements only. Task has a gorm.DeletedAt, so
\* the statement sent is
\*   UPDATE tasks SET deleted_at = now
\*   WHERE (tasks.id = ? AND projects.owner_id = ?) AND tasks.deleted_at IS NULL
\* which PostgreSQL rejects (no FROM entry for projects): result.Error is set
\* whatever the id and the caller, and no row is touched.
DeleteTask(db, caller, id, t) ==
    IF ~uuidParse(id) THEN InvalidID(db, "Invalid task ID") ELSE
    Out(db, ErrorResponse(StatusInternalServerError, "Internal Server Error",
                          "Failed to delete task"))


-----------------------------------------------------------------------------
(* The server: one request is served at a time *)

\* A slot that serves no request, and all slots so.
Slots == 1..MaxInFlight
Free == [pc |-> "free"]
NoneInFlight == [s \in Slots |-> Free]

\* main before a signal: the database is open, the signal goroutine waits on
\* its channel and app.Listen serves.
Running ==
    /\ inflight = NoneInFlight
    /\ shutdown = "waiting"
    /\ dbOpen = TRUE
    /\ listening = TRUE

Idle == [req |-> [op |-> "idle"], handler |-> FALSE,
         resp |-> [status |-> 0, body |-> [message |-> ""]]]

Init ==
    /\ now = 0
    /\ users = <<>>
    /\ projects = <<>>
    /\ tasks = <<>>
    /\ tokens = {}
    /\ last = Idle
    /\ ops = 0
    /\ Running

\* The handler has run (ran) and left `out`.
Serve(req, ran, out) ==
    /\ last = Idle
    /\ users' = out.db.users
    /\ projects' = out.db.projects
    /\ tasks' = out.db.tasks
    /\ last' = [req |-> req, handler |-> ran, resp |-> out.resp]
    /\ UNCHANGED process

\* c.Locals("user_id"), which the middleware has set.
GetUserIDFromContext(hdr) == JWTMiddleware(hdr, now).user_id

\* A route registered after api.Use(middleware.JWTMiddleware(cfg)): the
\* middleware answers, or sets user_id and calls the handler (c.Next()).
\* `out` is what the route's handler, run for GetUserIDFromContext, leaves.
Protected(req, out) ==
    LET auth == JWTMiddleware(req.hdr, now)
    IN /\ IF auth.ok THEN Serve(req, TRUE, out)
          ELSE Serve(req, FALSE, Out(DB, auth.resp))
       /\ UNCHANGED <<now, tokens>>

\* The routes registered before the middleware.
Health(hdr) ==
    /\ Serve([op |-> "Health", hdr |-> hdr], TRUE,
             Out(DB, SuccessResponse(StatusOK, "TaskFlow API is running",
                                     [status |-> "healthy"])))
    /\ UNCHANGED <<now, tokens>>

AuthRegister(hdr, body) ==
    /\ Serve([op |-> "CreateUser", hdr |-> hdr, body |-> body], TRUE,
             CreateUser(DB, body))
    /\ UNCHANGED <<now, tokens>>

AuthLogin(hdr, body) ==
    LET out == LoginHandler(DB, body, now)
    IN /\ Serve([op |-> "Login", hdr |-> hdr, body |-> body], TRUE, out)
       /\ tokens' = IF out.resp.status = StatusOK
                    THEN tokens \cup {out.resp.body.data.token} ELSE tokens
       /\ UNCHANGED now

UsersList(hdr, pageQ, limitQ) ==
    Protected([op |-> "GetUsers", hdr |-> hdr, page |-> pageQ, limit |-> limitQ],
              GetUsers(DB, pageQ, limitQ))

UsersGet(hdr, id) ==
    Protected([op |-> "GetUser", hdr |-> hdr, id |-> id],
              GetUser(DB, id))

UsersPut(hdr, id, body) ==
    Protected([op |-> "UpdateUser", hdr |-> hdr, id |-> id, body |-> body],
              UpdateUser(DB, GetUserIDFromContext(hdr), id, body))

UsersDelete(hdr, id) ==
    Protected([op |-> "DeleteUser", hdr |-> hdr, id |-> id],
              DeleteUser(DB, GetUserIDFromContext(hdr), id, now))

ProjectsPost(hdr, body) ==
    Protected([op |-> "CreateProject", hdr |-> hdr, body |-> body],
              CreateProject(DB, GetUserIDFromContext(hdr), body))

ProjectsList(hdr, pageQ, limitQ) ==
    Protected([op |-> "GetProjects", hdr |-> hdr, page |-> pageQ, limit |-> limitQ],
              GetProjects(DB, GetUserIDFromContext(hdr), pageQ, limitQ))

ProjectsGet(hdr, id) ==
    Protected([op |-> "GetProject", hdr |-> hdr, id |-> id],
              GetProject(DB, GetUserIDFromContext(hdr), id))

ProjectsPut(hdr, id, body) ==
    Protected([op |-> "UpdateProject", hdr |-> hdr, id |-> id, body |-> body],
              UpdateProject(DB, GetUserIDFromContext(hdr), id, body))

ProjectsDelete(hdr, id) ==
    Protected([op |-> "DeleteProject", hdr |-> hdr, id |-> id],
              DeleteProject(DB, GetUserIDFromContext(hdr), id, now))

ProjectTasksPost(hdr, pid, body) ==
    Protected([op |-> "CreateTask", hdr |-> hdr, id |-> pid, body |-> body],
              CreateTask(DB, GetUserIDFromContext(hdr), pid, body))

ProjectTasksList(hdr, pid, pageQ, limitQ) ==
    Protected([op |-> "GetProjectTasks", hdr |-> hdr, id |-> pid,
               page |-> pageQ, limit |-> limitQ],
              GetProjectTasks(DB, GetUserIDFromContext(hdr), pid, pageQ, limitQ))

TasksGet(hdr, id) ==
    Protected([op |-> "GetTask", hdr |-> hdr, id |-> id],
              GetTask(DB, GetUserIDFromContext(hdr), id))

TasksPut(hdr, id, body) ==
    Protected([op |-> "UpdateTask", hdr |-> hdr, id |-> id, body |-> body],
              UpdateTask(DB, GetUserIDFromContext(hdr), id, body, now))

TasksPatchStatus(hdr, id, body) ==
    Protected([op |-> "UpdateTaskStatus", hdr |-> hdr, id |-> id, body |-> body],
              UpdateTaskStatus(DB, GetUserIDFromContext(hdr), id, body, now))

TasksDelete(hdr, id) ==
    Protected([op |-> "DeleteTask", hdr |-> hdr, id |-> id],
              DeleteTask(DB, GetUserIDFromContext(hdr), id, now))

\* The response has been written; the next request can be read.
Respond ==
    /\ last # Idle
    /\ last' = Idle
    /\ UNCHANGED <<now, users, projects, tasks, tokens, ops>>
    /\ UNCHANGED process

Tick ==
    /\ last = Idle
    /\ now' = now + 1
    /\ UNCHANGED <<users, projects, tasks, tokens, last>>
    /\ UNCHANGED process

-----------------------------------------------------------------------------
(* The requests the clients send *)

Emails == <<(<<"ann", "x.io">>), (<<"bob", "x.io">>)>>
Password == <<1, 2, 3, 4, 5, 6>>
WrongPassword == <<6, 5, 4, 3, 2, 1>>

\* The ids in use and one more, which names no row.
UserIds == 1..(Len(users) + 1)
ProjectIds == 1..(Len(projects) + 1)
TaskIds == 1..(Len(tasks) + 1)

\* A client sends a token some login gave out, ...
Signed == {Bearer(t, TRUE) : t \in tokens}
\* ... or no token, or one it signed itself.
Forged == Bearer([user_id |-> 1, email |-> Emails[1], exp |-> now + JWTExpiry], FALSE)
Unsigned == {NoHeader, BasicHeader, Forged}

\* Addresses are interchangeable: a new one is the next of Emails.
KnownEmails ==
    {Emails[i] : i \in 1..(IF Len(users) < Len(Emails) THEN Len(users) + 1
                           ELSE Len(Emails))}
RegisterBodies ==
    {[email |-> e, password |-> Password, first_name |-> "Ann"] : e \in KnownEmails}
LoginBodies == [email : KnownEmails, password : {Password, WrongPassword}]
UserUpdateBodies ==
    {[first_name |-> "", is_active |-> nil],
     [first_name |-> "Zed", is_active |-> nil],
     [first_name |-> "", is_active |-> Ptr(FALSE)],
     [first_name |-> "", is_active |-> Ptr(TRUE)]}
ProjectCreateBodies == {[name |-> "Alpha"], [name |-> ""]}
ProjectUpdateBodies ==
    {[name |-> "", status |-> nil], [name |-> "Beta", status |-> nil]}
    \cup {[name |-> "", status |-> Ptr(st)] : st \in {"active", "archived", "bogus"}}
TaskCreateBodies ==
    {[title |-> "Tea", assignee_id |-> a] : a \in {nil} \cup {Ptr(u) : u \in UserIds}}
    \cup {[title |-> "", assignee_id |-> nil]}
TaskUpdateBodies ==
    {[title |-> "", assignee_id |-> nil, status |-> nil],
     [title |-> "Tax", assignee_id |-> nil, status |-> nil]}
    \cup {[title |-> "", assignee_id |-> Ptr(u), status |-> nil] : u \in UserIds}
    \cup {[title |-> "", assignee_id |-> nil, status |-> Ptr(st)] :
             st \in TaskStatuses \cup {"bogus"}}
TaskStatusBodies == {[status |-> st] : st \in TaskStatuses \cup {"", "bogus"}}

\* Malformed input: a body that does not parse, a registration with a bad
\* email, a short password or a missing field, a login with a missing field.
ShortPassword == <<1, 2, 3, 4, 5>>
NotAnEmail == <<"ann">>
MalformedRegisterBodies ==
    {Unparsable}
    \cup {[email |-> NotAnEmail, password |-> Password, first_name |-> "Ann"]}
    \cup {[email |-> e, password |-> ShortPassword, first_name |-> "Ann"] :
             e \in KnownEmails}
    \cup {[email |-> e, password |-> Password, first_name |-> ""] : e \in KnownEmails}
    \cup {[email |-> <<>>, password |-> Password, first_name |-> "Ann"]}
MalformedLoginBodies ==
    {Unparsable}
    \cup {[email |-> e, password |-> <<>>] : e \in KnownEmails}
    \cup {[email |-> <<>>, password |-> Password]}

\* Every route with a path id or a body, asked for with header h, a path id
\* that is no UUID or a body that does not parse.
AnyMalformed(h) ==
    \/ UsersGet(h, NotAUUID)
    \/ UsersPut(h, NotAUUID, [first_name |-> "Zed", is_active |-> nil])
    \/ \E id \in UserIds : UsersPut(h, id, Unparsable)
    \/ UsersDelete(h, NotAUUID)
    \/ ProjectsPost(h, Unparsable)
    \/ ProjectsGet(h, NotAUUID)
    \/ ProjectsPut(h, NotAUUID, [name |-> "Beta", status |-> nil])
    \/ \E id \in ProjectIds : ProjectsPut(h, id, Unparsable)
    \/ ProjectsDelete(h, NotAUUID)
    \/ ProjectTasksPost(h, NotAUUID, [title |-> "Tea", assignee_id |-> nil])
    \/ \E id \in ProjectIds : ProjectTasksPost(h, id, Unparsable)
    \/ ProjectTasksList(h, NotAUUID, nil, nil)
    \/ TasksGet(h, NotAUUID)
    \/ TasksPut(h, NotAUUID, [title |-> "Tax", assignee_id |-> nil, status |-> nil])
    \/ \E id \in TaskIds : TasksPut(h, id, Unparsable)
    \/ TasksPatchStatus(h, NotAUUID, [status |-> "done"])
    \/ \E id \in TaskIds : TasksPatchStatus(h, id, Unparsable)
    \/ TasksDelete(h, NotAUUID)

\* Every protected route, asked for with header h.
AnyProtected(h) ==
    \/ UsersList(h, nil, nil)
    \/ UsersGet(h, 1)
    \/ UsersPut(h, 1, [first_name |-> "Zed", is_active |-> nil])
    \/ UsersDelete(h, 1)
    \/ ProjectsPost(h, [name |-> "Alpha"])
    \/ ProjectsList(h, nil, nil)
    \/ ProjectsGet(h, 1)
    \/ ProjectsPut(h, 1, [name |-> "Beta", status |-> nil])
    \/ ProjectsDelete(h, 1)
    \/ ProjectTasksPost(h, 1, [title |-> "Tea", assignee_id |-> nil])
    \/ ProjectTasksList(h, 1, nil, nil)
    \/ TasksGet(h, 1)
    \/ TasksPut(h, 1, [title |-> "Tax", assignee_id |-> nil, status |-> nil])
    \/ TasksPatchStatus(h, 1, [status |-> "done"])
    \/ TasksDelete(h, 1)

\* Spec explores the runs in which at most MaxOps steps change anything.
Budget ==
    /\ ops' = IF <<now', users', projects', tasks', tokens'>>
                 = <<now, users, projects, tasks, tokens>>
              THEN ops ELSE ops + 1
    /\ ops' <= MaxOps

Next ==
    \/ last = Idle /\ \E h \in Unsigned : Health(h) /\ Budget
    \/ last = Idle /\ \E b \in RegisterBodies : AuthRegister(NoHeader, b) /\ Budget
    \/ last = Idle /\ \E b \in LoginBodies : AuthLogin(NoHeader, b) /\ Budget
    \/ last = Idle /\ \E h \in Unsigned : AnyProtected(h) /\ Budget
    \/ last = Idle /\ \E h \in Signed : UsersList(h, nil, nil) /\ Budget
    \/ last = Idle /\ \E h \in Signed, id \in UserIds : UsersGet(h, id) /\ Budget
    \/ last = Idle /\ \E h \in Signed, id \in UserIds, b \in UserUpdateBodies :
          UsersPut(h, id, b) /\ Budget
    \/ last = Idle /\ \E h \in Signed, id \in UserIds : UsersDelete(h, id) /\ Budget
    \/ last = Idle /\ \E h \in Signed, b \in ProjectCreateBodies : ProjectsPost(h, b) /\ Budget
    \/ last = Idle /\ \E h \in Signed : ProjectsList(h, nil, nil) /\ Budget
    \/ last = Idle /\ \E h \in Signed, id \in ProjectIds : ProjectsGet(h, id) /\ Budget
    \/ last = Idle /\ \E h \in Signed, id \in ProjectIds, b \in ProjectUpdateBodies :
          ProjectsPut(h, id, b) /\ Budget
    \/ last = Idle /\ \E h \in Signed, id \in ProjectIds : ProjectsDelete(h, id) /\ Budget
    \/ last = Idle /\ \E h \in Signed, id \in ProjectIds, b \in TaskCreateBodies :
          ProjectTasksPost(h, id, b) /\ Budget
    \/ last = Idle /\ \E h \in Signed, id \in ProjectIds : ProjectTasksList(h, id, nil, nil) /\ Budget
    \/ last = Idle /\ \E h \in Signed, id \in TaskIds : TasksGet(h, id) /\ Budget
    \/ last = Idle /\ \E h \in Signed, id \in TaskIds, b \in TaskUpdateBodies :
          TasksPut(h, id, b) /\ Budget
    \/ last = Idle /\ \E h \in Signed, id \in TaskIds, b \in TaskStatusBodies :
          TasksPatchStatus(h, id, b) /\ Budget
    \/ last = Idle /\ \E h \in Signed, id \in TaskIds : TasksDelete(h, id) /\ Budget
    \/ last = Idle /\ \E b \in MalformedRegisterBodies : AuthRegister(NoHeader, b) /\ Budget
    \/ last = Idle /\ \E b \in MalformedLoginBodies : AuthLogin(NoHeader, b) /\ Budget
    \/ last = Idle /\ \E h \in Signed : AnyMalformed(h) /\ Budget
    \/ last = Idle /\ Tick /\ Budget
    \/ Respond

Spec == Init /\ [][Next]_vars

-----------------------------------------------------------------------------
(* Listing: one client fills its account and pages through the lists *)

\* The query strings tried for ?page= and ?limit= (nil: parameter absent).
PageQueries == {nil} \cup {Ptr(n) : n \in {0, 1, 2, 3}}
LimitQueries == {nil} \cup {Ptr(n) : n \in {0 - 1, 0, 1, 5, 10, 100, 101}}

RegisterBody(e) == [email |-> e, password |-> Password, first_name |-> "Ann"]
EmptyDB == [users |-> <<>>, projects |-> <<>>, tasks |-> <<>>]

\* Two registered users; bob (2) owns project 1, ann (1) has deleted her
\* project 2. Built by the handlers themselves.
SeedDB ==
    LET d1 == CreateUser(EmptyDB, RegisterBody(Emails[1])).db
        d2 == CreateUser(d1, RegisterBody(Emails[2])).db
        d3 == CreateProject(d2, 2, [name |-> "Alpha"]).db
        d4 == CreateProject(d3, 1, [name |-> "Alpha"]).db
    IN DeleteProject(d4, 1, 2, 0).db

\* ann has logged in.
InitList ==
    /\ now = 0
    /\ users = SeedDB.users
    /\ projects = SeedDB.projects
    /\ tasks = SeedDB.tasks
    /\ tokens = {LoginHandler(SeedDB, [email |-> Emails[1], password |-> Password],
                              0).resp.body.data.token}
    /\ last = Idle
    /\ ops = 0
    /\ Running

LiveProjectsOf(caller) ==
    {i \in Live(projects) : projects[i].owner_id = caller}

\* The project the client files its tasks under: its oldest live one.
FirstProjectOf(caller) ==
    IF LiveProjectsOf(caller) = {} THEN Len(projects) + 1
    ELSE CHOOSE i \in LiveProjectsOf(caller) : \A j \in LiveProjectsOf(caller) : i <= j

\* SpecList explores the accounts of at most ListMaxProjects live projects
\* and ListMaxTasks tasks.
ListBudget ==
    /\ ops' = IF <<users', projects', tasks'>> = <<users, projects, tasks>>
              THEN ops ELSE ops + 1
    /\ \A u \in Ids(users) :
          Cardinality({i \in Live(projects') : projects'[i].owner_id = u})
              <= ListMaxProjects
    /\ Len(tasks') <= ListMaxTasks

NextList ==
    \/ last = Idle /\ \E h \in Signed : ProjectsPost(h, [name |-> "Alpha"]) /\ ListBudget
    \/ last = Idle /\ \E h \in Signed :
          ProjectTasksPost(h, FirstProjectOf(h.token.user_id),
                           [title |-> "Tea", assignee_id |-> nil]) /\ ListBudget
    \/ last = Idle /\ \E h \in Signed, p \in PageQueries, l \in LimitQueries :
          UsersList(h, p, l) /\ ListBudget
    \/ last = Idle /\ \E h \in Signed, p \in PageQueries, l \in LimitQueries :
          ProjectsList(h, p, l) /\ ListBudget
    \/ last = Idle /\ \E h \in Signed, p \in PageQueries, l \in LimitQueries :
          ProjectTasksList(h, FirstProjectOf(h.token.user_id), p, l) /\ ListBudget
    \/ Respond

SpecList == InitList /\ [][NextList]_vars

-----------------------------------------------------------------------------
(* What the claims speak of *)

ProjectOps == {"GetProject", "UpdateProject", "DeleteProject"}
TaskOps == {"GetTask", "UpdateTask", "UpdateTaskStatus", "DeleteTask"}
ListOps == {"GetUsers", "GetProjects", "GetProjectTasks"}
PublicOps == {"Health", "CreateUser", "Login"}

\* A step that serves a request; last' is the request and its answer.
Answered == last = Idle /\ last' # Idle

\* The caller the middleware handed to the handler.
CallerOf(r) == r.req.hdr.token.user_id

\* The path id is a UUID, the body parses and passes the handler's validation
\* (validate:"required" on status and on title).
WellFormed(r) ==
    /\ "id" \in DOMAIN r.req => uuidParse(r.req.id)
    /\ "body" \in DOMAIN r.req =>
          /\ BodyParser(r.req.body)
          /\ r.req.op = "UpdateTaskStatus" => r.req.body.status # ""
          /\ r.req.op = "CreateTask" => r.req.body.title # ""

\* A stored project / task that belongs to someone other than c.
ForeignProject(c, id) == id \in Ids(projects) /\ projects[id].owner_id # c
ForeignTask(c, id) ==
    /\ id \in Ids(tasks)
    /\ tasks[id].project_id \in Ids(projects)
    /\ projects[tasks[id].project_id].owner_id # c

\* Ids that name no row.
NoProject == Len(projects) + 1
NoTask == Len(tasks) + 1

\* A request of pOps on another user's project, or of tOps on a task of
\* another user's project, is answered 404 and changes no row.
NonOwnerStep(pOps, tOps) ==
    LET r == last'
    IN (/\ Answered /\ r.handler /\ r.req.op \in pOps \cup tOps
        /\ WellFormed(r)
        /\ \/ r.req.op \in pOps /\ ForeignProject(CallerOf(r), r.req.id)
           \/ r.req.op \in tOps /\ ForeignTask(CallerOf(r), r.req.id))
       => /\ r.resp.status = StatusNotFound
          /\ projects' = projects
          /\ tasks' = tasks

\* C1: GetProject, UpdateProject, DeleteProject on a project the caller does
\* not own, and GetTask, UpdateTask, UpdateTaskStatus, DeleteTask on a task of
\* a project the caller does not own, return 404 and leave the row unchanged.
C1_NonOwnerNotFound == [][NonOwnerStep(ProjectOps, TaskOps)]_vars

\* The same for the six operations other than DeleteTask.
C1_ExceptDeleteTask == [][NonOwnerStep(ProjectOps, TaskOps \ {"DeleteTask"})]_vars

\* C2: for every operation addressed by a project or task id, the response
\* to a caller for another user's resource is the response, status and body,
\* the same caller gets in the same state for an id that names no row.
C2_ForeignLooksAbsent ==
    \A c \in Ids(users) :
        /\ \A p \in Ids(projects) : ForeignProject(c, p) =>
              /\ GetProject(DB, c, p).resp = GetProject(DB, c, NoProject).resp
              /\ \A b \in ProjectUpdateBodies :
                    UpdateProject(DB, c, p, b).resp
                        = UpdateProject(DB, c, NoProject, b).resp
              /\ DeleteProject(DB, c, p, now).resp
                    = DeleteProject(DB, c, NoProject, now).resp
              /\ \A b \in TaskCreateBodies :
                    CreateTask(DB, c, p, b).resp = CreateTask(DB, c, NoProject, b).resp
              /\ GetProjectTasks(DB, c, p, nil, nil).resp
                    = GetProjectTasks(DB, c, NoProject, nil, nil).resp
        /\ \A k \in Ids(tasks) : ForeignTask(c, k) =>
              /\ GetTask(DB, c, k).resp = GetTask(DB, c, NoTask).resp
              /\ \A b \in TaskUpdateBodies :
                    UpdateTask(DB, c, k, b, now).resp
                        = UpdateTask(DB, c, NoTask, b, now).resp
              /\ \A b \in TaskStatusBodies :
                    UpdateTaskStatus(DB, c, k, b, now).resp
                        = UpdateTaskStatus(DB, c, NoTask, b, now).resp
              /\ DeleteTask(DB, c, k, now).resp = DeleteTask(DB, c, NoTask, now).resp

\* A caller has asked for a live task of another user's live project.
C2_Witness ==
    /\ last # Idle /\ last.handler /\ last.req.op = "GetTask"
    /\ ForeignTask(CallerOf(last), last.req.id)
    /\ last.req.id \in Live(tasks)
    /\ tasks[last.req.id].project_id \in Live(projects)
    /\ last.resp.status = StatusNotFound

\* The header carries a token some login returned.
IssuedToken(hdr) == hdr.kind = "bearer" /\ hdr.signed /\ hdr.token \in tokens

\* C3: a token a successful login returned (its expiry instant, the exp it
\* carries, lies within one second before login time + JWT_EXPIRY) is let
\* through by the middleware on every protected request made strictly before
\* that instant, and is answered 401 on every protected request made after it.
C3_TokenGoodUntilExpiry ==
    [][LET r == last'
       IN /\ (Answered /\ r.req.op = "Login" /\ r.resp.status = StatusOK) =>
                 /\ r.resp.body.data.token.exp <= now + JWTExpiry
                 /\ r.resp.body.data.token.exp > now + JWTExpiry - TicksPerSecond
          /\ (Answered /\ r.req.op \notin PublicOps /\ IssuedToken(r.req.hdr)) =>
                 /\ now < r.req.hdr.token.exp => r.handler
                 /\ now > r.req.hdr.token.exp =>
                       ~r.handler /\ r.resp.status = StatusUnauthorized]_vars

\* A protected request with an issued token has come after the token's expiry.
C3_Witness ==
    /\ last # Idle /\ last.req.op \notin PublicOps
    /\ IssuedToken(last.req.hdr)
    /\ now > last.req.hdr.token.exp
    /\ last.resp.status = StatusUnauthorized

\* No header, a header that is no "Bearer ", a bad signature, an expired token.
BadHeader(hdr) ==
    \/ hdr.kind # "bearer"
    \/ ~hdr.signed
    \/ now >= hdr.token.exp

\* C4: a request to a users, projects or tasks endpoint with no Authorization
\* header, a header not starting with "Bearer ", a badly signed token or an
\* expired token gets 401, its handler does not run and the database is left
\* as it was; register, login and health run without a token.
C4_RejectedBeforeHandler ==
    [][LET r == last'
       IN /\ (Answered /\ r.req.op \notin PublicOps /\ BadHeader(r.req.hdr)) =>
                 /\ r.resp.status = StatusUnauthorized
                 /\ ~r.handler
                 /\ <<users', projects', tasks'>> = <<users, projects, tasks>>
          /\ (Answered /\ r.req.op \in PublicOps /\ r.req.hdr.kind # "bearer") =>
                 r.handler]_vars

\* A protected request with a self-signed token has been turned away while
\* there were rows it could have touched.
C4_Witness ==
    /\ last # Idle /\ last.req.op \notin PublicOps
    /\ last.req.hdr.kind = "bearer" /\ ~last.req.hdr.signed
    /\ last.resp.status = StatusUnauthorized
    /\ users # <<>> /\ projects # <<>>

\* C5: a register request (one that passes validation) whose email is the
\* email of a stored user row is answered 409 Conflict and creates no user row.
C5_DuplicateEmailConflict ==
    [][LET r == last'
       IN (/\ Answered /\ r.req.op = "CreateUser"
           /\ BodyParser(r.req.body) /\ ValidUserCreateRequest(r.req.body)
           /\ \E i \in Ids(users) : users[i].email = r.req.body.email)
          => r.resp.status = StatusConflict /\ users' = users]_vars

\* C6: after every step each task has completed_at set exactly when its status
\* is done, and a task that has just been created is todo with no completed_at.
C6_CompletedIffDone ==
    [][/\ \A k \in Ids(tasks') :
             tasks'[k].completed_at # nil <=> tasks'[k].status = TaskStatusDone
       /\ Len(tasks') > Len(tasks) =>
             /\ tasks'[Len(tasks')].status = TaskStatusTodo
             /\ tasks'[Len(tasks')].completed_at = nil]_vars

\* UpdateTask or UpdateTaskStatus has moved a task to done.
C6_Witness ==
    /\ last # Idle /\ last.handler
    /\ last.req.op \in {"UpdateTask", "UpdateTaskStatus"}
    /\ last.resp.status = StatusOK
    /\ last.req.id \in Ids(tasks)
    /\ tasks[last.req.id].status = TaskStatusDone
    /\ tasks[last.req.id].completed_at # nil

\* The last request was a list and its handler answered 200.
Listed ==
    /\ last # Idle /\ last.handler
    /\ last.req.op \in ListOps
    /\ last.resp.status = StatusOK

\* The live rows a list ranges over.
ScopeOf(r) ==
    CASE r.req.op = "GetUsers" -> Live(users)
      [] r.req.op = "GetProjects" -> LiveProjectsOf(CallerOf(r))
      [] r.req.op = "GetProjectTasks" ->
            {k \in Live(tasks) : tasks[k].project_id = r.req.id}

\* The page a ?page= stands for.
PageAsked(q) == IF q = nil \/ Deref(q) < 1 THEN 1 ELSE Deref(q)

\* The limit a ?limit= stands for: clamped to the range, ...
LimitClamped(q) ==
    IF q = nil THEN DefaultLimit
    ELSE IF Deref(q) < MinLimit THEN MinLimit
    ELSE IF Deref(q) > MaxLimit THEN MaxLimit
    ELSE Deref(q)

\* ... or replaced by the default when it lies outside the range.
LimitOrDefault(q) ==
    IF q = nil THEN DefaultLimit
    ELSE IF Deref(q) < MinLimit \/ Deref(q) > MaxLimit THEN DefaultLimit
    ELSE Deref(q)

\* How many of `total` rows fall on a page.
ItemsOnPage(total, page, limit) ==
    LET rest == total - (page - 1) * limit
    IN IF rest < 0 THEN 0 ELSE IF rest > limit THEN limit ELSE rest

\* A list answers with page PageAsked, with `limit`, and with the rows of that
\* page and limit; the limit it reports is that one.
ListsWith(limit) ==
    Listed =>
        LET pg == last.resp.body.pagination
        IN /\ pg.page = PageAsked(last.req.page) /\ pg.page >= 1
           /\ pg.limit = limit
           /\ pg.limit >= MinLimit /\ pg.limit <= MaxLimit
           /\ Len(last.resp.body.data)
                 = ItemsOnPage(Cardinality(ScopeOf(last)), pg.page, limit)

\* C7 as stated: every list uses page >= 1 and the requested limit clamped to
\* [1,100] (100 for more, 1 for less, 10 when absent), and reports that limit.
C7_LimitClamped == ListsWith(LimitClamped(last.req.limit))

\* C7 amended: every list uses page >= 1 and the requested limit when it lies
\* in [1,100], and 10 when it is absent or lies outside; it reports that limit.
C7_LimitInRangeOrDefault == ListsWith(LimitOrDefault(last.req.limit))

\* A caller with 11 projects has listed them with limit=101 and got 10.
C7_Witness ==
    /\ Listed /\ last.req.op = "GetProjects"
    /\ last.req.limit = Ptr(101) /\ last.req.page = nil
    /\ Cardinality(ScopeOf(last)) = 11
    /\ Len(last.resp.body.data) = 10
    /\ last.resp.body.pagination.limit = 10

\* The least n with n * limit >= total.
Ceil(total, limit) ==
    CHOOSE n \in 0..total : n * limit >= total /\ \A m \in 0..(n - 1) : m * limit < total

\* C8: a list reports as total the number of live rows in its scope and as
\* total_pages ceil(total / limit) for the limit it used (0 for no rows); 11
\* projects listed with limit=10 give total 11 and total_pages 2.
C8_TotalPagesIsCeiling ==
    Listed =>
        LET pg == last.resp.body.pagination
        IN /\ pg.total = Cardinality(ScopeOf(last))
           /\ pg.total_pages = Ceil(pg.total, pg.limit)
           /\ pg.total = 0 => pg.total_pages = 0
           /\ (/\ last.req.op = "GetProjects" /\ last.req.limit = Ptr(10)
               /\ Cardinality(LiveProjectsOf(CallerOf(last))) = 11)
              => pg.total = 11 /\ pg.total_pages = 2

\* A caller with 11 projects has listed them with limit=10.
C8_Witness ==
    /\ Listed /\ last.req.op = "GetProjects" /\ last.req.limit = Ptr(10)
    /\ Cardinality(LiveProjectsOf(CallerOf(last))) = 11
    /\ last.resp.body.pagination.total = 11
    /\ last.resp.body.pagination.total_pages = 2

\* The project of task k has been deleted (only DeleteProject sets deleted_at).
ProjectDeleted(k) ==
    /\ tasks[k].project_id \in Ids(projects)
    /\ projects[tasks[k].project_id].deleted_at # nil

\* The tasks an answer to GetProject or GetProjectTasks lists.
TasksListed(r) ==
    CASE r.req.op = "GetProject" -> r.resp.body.data.tasks
      [] r.req.op = "GetProjectTasks" -> r.resp.body.data
      [] OTHER -> <<>>

\* C9: once a project has been deleted, GetTask, UpdateTask, UpdateTaskStatus
\* and DeleteTask on each of its tasks return 404 to every caller, and no
\* list contains one of its tasks.
C9_TasksGoWithProject ==
    [][LET r == last'
       IN /\ (/\ Answered /\ r.handler /\ r.req.op \in TaskOps /\ WellFormed(r)
              /\ r.req.id \in Ids(tasks) /\ ProjectDeleted(r.req.id))
             => r.resp.status = StatusNotFound
          /\ (Answered /\ r.handler /\ r.resp.status = StatusOK) =>
                \A k \in 1..Len(TasksListed(r)) :
                    ~ProjectDeleted(TasksListed(r)[k].id)]_vars

\* The same without the single-task requests of the project's former owner.
C9_OtherCallersAndLists ==
    [][LET r == last'
       IN /\ (/\ Answered /\ r.handler /\ r.req.op \in TaskOps \ {"DeleteTask"}
              /\ WellFormed(r)
              /\ r.req.id \in Ids(tasks) /\ ProjectDeleted(r.req.id)
              /\ ForeignTask(CallerOf(r), r.req.id))
             => r.resp.status = StatusNotFound
          /\ (Answered /\ r.handler /\ r.resp.status = StatusOK) =>
                \A k \in 1..Len(TasksListed(r)) :
                    ~ProjectDeleted(TasksListed(r)[k].id)]_vars

\* A user, project or task as a response shows it, with what it embeds, is a
\* live row.
UserShown(u) == u.id \in Live(users)
ProjectShown(p) ==
    /\ p.id \in Live(projects)
    /\ p.owner # nil => UserShown(Deref(p.owner))
    /\ p.tasks_count <= Cardinality({k \in Live(tasks) : tasks[k].project_id = p.id})
TaskShown(t) ==
    /\ t.id \in Live(tasks)
    /\ t.project # nil => ProjectShown(Deref(t.project))
    /\ t.assignee # nil => UserShown(Deref(t.assignee))

\* C10: a get or a list returns no deleted row, neither as the resource
\* addressed, nor as an item, nor embedded as owner, assignee, project or
\* task; a login with the email of a deleted user is answered 401.
C10_DeletedRowsHidden ==
    /\ (last # Idle /\ last.handler /\ last.resp.status = StatusOK) =>
          LET d == last.resp.body.data
          IN CASE last.req.op = "GetUser" -> UserShown(d) /\ d.id = last.req.id
               [] last.req.op = "GetUsers" -> \A k \in 1..Len(d) : UserShown(d[k])
               [] last.req.op = "GetProject" ->
                     /\ ProjectShown(d.project) /\ d.project.id = last.req.id
                     /\ \A k \in 1..Len(d.tasks) : TaskShown(d.tasks[k])
               [] last.req.op = "GetProjects" ->
                     \A k \in 1..Len(d) : ProjectShown(d[k])
               [] last.req.op = "GetProjectTasks" ->
                     \A k \in 1..Len(d) : TaskShown(d[k])
               [] last.req.op = "GetTask" -> TaskShown(d) /\ d.id = last.req.id
               [] OTHER -> TRUE
    /\ (/\ last # Idle /\ last.req.op = "Login" /\ BodyParser(last.req.body)
        /\ \E i \in Ids(users) :
              users[i].deleted_at # nil /\ users[i].email = last.req.body.email)
       => last.resp.status = StatusUnauthorized

\* A user who deleted their account has fetched their project: it comes
\* without its owner.
C10_Witness ==
    /\ last # Idle /\ last.handler /\ last.req.op = "GetProject"
    /\ last.resp.status = StatusOK
    /\ users[projects[last.req.id].owner_id].deleted_at # nil
    /\ last.resp.body.data.project.owner = nil

\* The two operations on a user row addressed by a path id.
UserWriteOps == {"UpdateUser", "DeleteUser"}

\* C11: UpdateUser and DeleteUser answer a request whose path id is a user id
\* other than the caller's with 403 and leave every user row as it was,
\* whether or not a user has that id; a stored user row changes only in an
\* UpdateUser or DeleteUser of the user it belongs to.
C11_OnlySelf ==
    [][LET r == last'
       IN /\ (/\ Answered /\ r.handler /\ r.req.op \in UserWriteOps
               /\ uuidParse(r.req.id) /\ r.req.id # CallerOf(r))
              => r.resp.status = StatusForbidden /\ users' = users
          /\ \A i \in Ids(users) :
                users'[i] # users[i] =>
                    /\ Answered /\ r.handler /\ r.req.op \in UserWriteOps
                    /\ r.req.id = i /\ CallerOf(r) = i]_vars

\* A caller has asked to update another, live and active, user and got 403.
C11_Witness ==
    /\ last # Idle /\ last.handler /\ last.req.op = "UpdateUser"
    /\ BodyParser(last.req.body) /\ last.req.body.is_active = Ptr(FALSE)
    /\ last.req.id # CallerOf(last)
    /\ last.req.id \in Live(users) /\ users[last.req.id].is_active
    /\ last.resp.status = StatusForbidden
\* The operations addressed by a user id.
UserOps == {"GetUser", "UpdateUser", "DeleteUser"}

\* No live row with the id of request r exists for its caller: no live user
\* has it (asked for by that user, where only that user may ask), no live
\* project of the caller has it, no live task of a project of the caller.
AbsentForCaller(r) ==
    CASE r.req.op \in UserOps ->
            /\ r.req.id \notin Live(users)
            /\ r.req.op \in UserWriteOps => r.req.id = CallerOf(r)
      [] r.req.op \in ProjectOps ->
            \/ r.req.id \notin Live(projects)
            \/ projects[r.req.id].owner_id # CallerOf(r)
      [] r.req.op \in TaskOps ->
            \/ r.req.id \notin Live(tasks)
            \/ ForeignTask(CallerOf(r), r.req.id)
      [] OTHER -> FALSE

\* A request of opSet for an id with no live row for the caller is answered
\* 404 and changes nothing.
AbsentStep(opSet) ==
    LET r == last'
    IN (/\ Answered /\ r.handler /\ r.req.op \in opSet
        /\ WellFormed(r) /\ AbsentForCaller(r))
       => /\ r.resp.status = StatusNotFound
          /\ <<users', projects', tasks'>> = <<users, projects, tasks>>

\* C12: every get, update or delete addressed by id returns 404 and changes
\* nothing when no live row with that id exists for the caller; so a delete
\* of an id that an earlier delete has removed returns 404.
C12_AbsentNotFound == [][AbsentStep(UserOps \cup ProjectOps \cup TaskOps)]_vars

\* The same for the operations other than DeleteUser and DeleteTask.
C12_ExceptUserAndTaskDelete ==
    [][AbsentStep((UserOps \cup ProjectOps \cup TaskOps)
                      \ {"DeleteUser", "DeleteTask"})]_vars

\* DeleteUser never answers 404.
C12_DeleteUserNeverNotFound ==
    (last # Idle /\ last.handler /\ last.req.op = "DeleteUser")
        => last.resp.status # StatusNotFound
\* The operations addressed by the id of the project whose tasks they concern.
ProjectTaskOps == {"CreateTask", "GetProjectTasks"}

\* C13: CreateTask and GetProjectTasks on a project id that names no row, a
\* deleted project or another user's project return 404 and change nothing;
\* a task row comes into being only in a CreateTask answered 201, in a live
\* project whose owner at that moment is the caller; a request answered
\* otherwise produces no task row.
C13_TasksOnlyInOwnProject ==
    [][LET r == last'
       IN /\ (/\ Answered /\ r.handler /\ r.req.op \in ProjectTaskOps
               /\ WellFormed(r)
               /\ \/ r.req.id \notin Live(projects)
                  \/ projects[r.req.id].owner_id # CallerOf(r))
              => /\ r.resp.status = StatusNotFound
                 /\ <<users', projects', tasks'>> = <<users, projects, tasks>>
          /\ tasks' # tasks /\ Len(tasks') # Len(tasks) =>
                /\ Answered /\ r.handler /\ r.req.op = "CreateTask"
                /\ r.resp.status = StatusCreated
                /\ Len(tasks') = Len(tasks) + 1
                /\ tasks'[Len(tasks')].project_id = r.req.id
                /\ r.req.id \in Live(projects)
                /\ projects[r.req.id].owner_id = CallerOf(r)
          /\ (Answered /\ r.resp.status # StatusCreated) => Len(tasks') = Len(tasks)]_vars

\* A caller has asked to create a task in a project they had deleted.
C13_Witness ==
    /\ last # Idle /\ last.handler /\ last.req.op = "CreateTask"
    /\ WellFormed(last)
    /\ last.req.id \in Ids(projects)
    /\ projects[last.req.id].deleted_at # nil
    /\ projects[last.req.id].owner_id = CallerOf(last)
    /\ last.resp.status = StatusNotFound
\* A field the request's struct marks validate:"required" is missing, or a
\* registration's email is no email or its password is too short.
FailsValidation(r) ==
    CASE r.req.op = "CreateUser" -> ~ValidUserCreateRequest(r.req.body)
      [] r.req.op = "Login" -> r.req.body.email = <<>> \/ r.req.body.password = <<>>
      [] r.req.op = "CreateProject" -> r.req.body.name = ""
      [] r.req.op = "CreateTask" -> r.req.body.title = ""
      [] r.req.op = "UpdateTaskStatus" -> r.req.body.status = ""
      [] OTHER -> FALSE

\* The input of request r is malformed.
Malformed(r) ==
    \/ "id" \in DOMAIN r.req /\ ~uuidParse(r.req.id)
    \/ "body" \in DOMAIN r.req /\ ~BodyParser(r.req.body)
    \/ "body" \in DOMAIN r.req /\ BodyParser(r.req.body) /\ FailsValidation(r)

\* The request is an UpdateUser or DeleteUser for a user other than the caller.
NotSelf(r) ==
    r.req.op \in UserWriteOps /\ uuidParse(r.req.id) /\ r.req.id # CallerOf(r)

\* A request of opSet with malformed input, which its route hands to the
\* handler and which is not turned away as another user's, is answered 400
\* and creates or modifies no row.
MalformedStep(opSet) ==
    LET r == last'
    IN (/\ Answered /\ r.handler /\ r.req.op \in opSet
        /\ Malformed(r) /\ ~NotSelf(r))
       => /\ r.resp.status = StatusBadRequest
          /\ <<users', projects', tasks'>> = <<users, projects, tasks>>

\* The operations that take a path id or a body.
InputOps ==
    {"CreateUser", "Login", "CreateProject", "CreateTask", "GetProjectTasks"}
        \cup UserOps \cup ProjectOps \cup TaskOps

\* C14: a request with malformed input (a path id that is no UUID, a body
\* that does not parse, a missing required field, a registration email that
\* is no email, a registration password of fewer than 6 characters) is
\* answered 400 and creates or modifies no row.
C14_MalformedBadRequest == [][MalformedStep(InputOps)]_vars

\* The same for every operation but login.
C14_ExceptLogin == [][MalformedStep(InputOps \ {"Login"})]_vars

\* A login that parses is never answered 400.
C14_LoginNeverValidates ==
    (last # Idle /\ last.req.op = "Login" /\ BodyParser(last.req.body))
        => last.resp.status # StatusBadRequest
\* The live, active users with the email of login body b whose stored hash
\* the password of b matches.
Credentialed(b) ==
    {i \in Live(users) :
        /\ users[i].email = b.email
        /\ users[i].is_active
        /\ users[i].password_hash = GenerateFromPassword(b.password)}

\* C15: a login whose body parses is answered 200 with a token exactly when
\* a live, active user has the given email and a stored hash the given
\* password matches, and the token carries that user's id; every other such
\* login is answered 401; a token is issued by a login answered 200 only,
\* and no login changes a row.
C15_LoginOnlyWithCredentials ==
    [][LET r == last'
       IN /\ (Answered /\ r.req.op = "Login") =>
                /\ <<users', projects', tasks'>> = <<users, projects, tasks>>
                /\ BodyParser(r.req.body) =>
                      IF Credentialed(r.req.body) # {}
                      THEN /\ r.resp.status = StatusOK
                           /\ r.resp.body.data.token.user_id \in Credentialed(r.req.body)
                           /\ r.resp.body.data.user.id = r.resp.body.data.token.user_id
                           /\ tokens' = tokens \cup {r.resp.body.data.token}
                      ELSE r.resp.status = StatusUnauthorized
                /\ r.resp.status # StatusOK => tokens' = tokens
          /\ tokens' # tokens =>
                Answered /\ r.req.op = "Login" /\ r.resp.status = StatusOK]_vars

\* A live user who has been made inactive has tried to log in with the
\* right password and got 401.
C15_Witness ==
    /\ last # Idle /\ last.req.op = "Login" /\ BodyParser(last.req.body)
    /\ \E i \in Live(users) :
          /\ users[i].email = last.req.body.email
          /\ ~users[i].is_active
          /\ CompareHashAndPassword(users[i].password_hash, last.req.body.password)
    /\ last.resp.status = StatusUnauthorized
\* User c has been deleted or made inactive.
Gone(c) == c \in Ids(users) /\ (users[c].deleted_at # nil \/ ~users[c].is_active)

\* A live project of c; a live task of a live project of c.
OwnLiveProject(c, id) == id \in Live(projects) /\ projects[id].owner_id = c
OwnLiveTask(c, k) == k \in Live(tasks) /\ OwnLiveProject(c, tasks[k].project_id)

\* Request r is for something of its caller's: a project to create, the
\* caller's projects, a live project of the caller or a live task of one.
OnOwnResource(r) ==
    CASE r.req.op \in {"CreateProject", "GetProjects"} -> TRUE
      [] r.req.op \in ProjectOps \cup ProjectTaskOps ->
            OwnLiveProject(CallerOf(r), r.req.id)
      [] r.req.op \in TaskOps -> OwnLiveTask(CallerOf(r), r.req.id)
      [] OTHER -> FALSE

\* The values in the body of r are ones the database takes: a name, a status
\* of the enum, an assignee that is a user.
ValidValues(r) ==
    LET b == r.req.body
        statusOK(set) == b.status = nil \/ Deref(b.status) \in set
        assigneeOK == b.assignee_id = nil \/ Deref(b.assignee_id) \in Ids(users)
    IN CASE r.req.op = "CreateProject" -> b.name # ""
         [] r.req.op = "UpdateProject" -> statusOK(ProjectStatuses)
         [] r.req.op = "CreateTask" -> assigneeOK
         [] r.req.op = "UpdateTask" -> statusOK(TaskStatuses) /\ assigneeOK
         [] r.req.op = "UpdateTaskStatus" -> b.status \in TaskStatuses
         [] OTHER -> TRUE

SuccessStatus(r) ==
    IF r.req.op \in {"CreateProject", "CreateTask"} THEN StatusCreated ELSE StatusOK

\* An issued token is let through on every protected request before its
\* expiry, whatever has happened since it was issued; and a user who has been
\* deleted or made inactive gets their requests of opSet on their own
\* projects and tasks carried out.
TokenOutlivesUser(opSet) ==
    LET r == last'
    IN /\ (/\ Answered /\ r.req.op \notin PublicOps
            /\ IssuedToken(r.req.hdr) /\ now < r.req.hdr.token.exp)
           => r.handler
       /\ (/\ Answered /\ r.handler /\ r.req.op \in opSet
            /\ Gone(CallerOf(r))
            /\ WellFormed(r) /\ ValidValues(r) /\ OnOwnResource(r))
           => r.resp.status = SuccessStatus(r)

\* The operations on projects and tasks.
ResourceOps ==
    {"CreateProject", "GetProjects"} \cup ProjectOps \cup ProjectTaskOps \cup TaskOps

\* C16: expiry is all that invalidates a token: an issued token is accepted
\* on every protected request before its expiry, also after a later login,
\* after UpdateUser has set is_active to false and after DeleteUser of its
\* user, and that user can still create, read, update and delete their
\* projects and tasks with it.
C16_OnlyExpiryInvalidates == [][TokenOutlivesUser(ResourceOps)]_vars

\* The same for the operations other than DeleteTask.
C16_ExceptDeleteTask == [][TokenOutlivesUser(ResourceOps \ {"DeleteTask"})]_vars

\* A deleted user has updated a task of theirs.
C16_DeletedUserStillServed ==
    /\ last # Idle /\ last.handler /\ last.req.op = "UpdateTaskStatus"
    /\ users[CallerOf(last)].deleted_at # nil
    /\ OwnLiveTask(CallerOf(last), last.req.id)
    /\ last.resp.status = StatusOK
\* C17: no step removes a user row: the stored user rows, live or deleted,
\* stay in place, DeleteUser changes nothing of a row but its deletion
\* timestamp, and a deleted row keeps every value it had at its deletion.
C17_UserRowsStay ==
    [][/\ Len(users') >= Len(users)
       /\ \A i \in Ids(users) :
             /\ users[i].deleted_at # nil => users'[i] = users[i]
             /\ users'[i].deleted_at # users[i].deleted_at =>
                   /\ last'.req.op = "DeleteUser"
                   /\ users'[i] = [users[i] EXCEPT !.deleted_at = Ptr(now)]]_vars

\* A deleted user has asked to rename themselves, with a token still good,
\* and got 404.
C17_Witness ==
    /\ last # Idle /\ last.handler /\ last.req.op = "UpdateUser"
    /\ last.req.id = CallerOf(last)
    /\ BodyParser(last.req.body) /\ last.req.body.first_name = "Zed"
    /\ last.req.id \in Ids(users)
    /\ users[last.req.id].deleted_at # nil
    /\ users[last.req.id].first_name = "Ann"
    /\ last.resp.status = StatusNotFound
-----------------------------------------------------------------------------
(* Requests served at once: each handler runs its statements one by one,
   and the statements of the requests in flight interleave. *)

\* ann (1) and bob (2) are registered and ann owns project 1.
RaceDB ==
    LET d1 == CreateUser(EmptyDB, RegisterBody(Emails[1])).db
        d2 == CreateUser(d1, RegisterBody(Emails[2])).db
    IN CreateProject(d2, 1, [name |-> "Alpha"]).db

\* An address nobody has registered yet.
RaceEmail == <<"cat", "x.io">>

\* Both have logged in.
InitRace ==
    /\ now = 0
    /\ users = RaceDB.users
    /\ projects = RaceDB.projects
    /\ tasks = RaceDB.tasks
    /\ tokens = {LoginHandler(RaceDB, [email |-> Emails[i], password |-> Password],
                               0).resp.body.data.token : i \in 1..2}
    /\ last = Idle
    /\ ops = 0
    /\ Running

\* The slots whose handler is between its first and its last statement.
Busy == {s \in Slots : inflight[s].pc \notin {"free", "done"}}

\* The route has handed the request to its handler, which has parsed the path
\* id and the body and stands before the statement pc. The request remembers
\* which requests were in flight when it came and how many users there were.
Begin(s, op, caller, id, body, pc) ==
    /\ listening
    /\ inflight[s] = Free
    /\ ops < MaxRaceRequests
    /\ ops' = ops + 1
    /\ inflight' = [inflight EXCEPT ![s] =
                       [pc |-> pc, op |-> op, caller |-> caller, id |-> id,
                        body |-> body, with |-> Busy, seen |-> Len(users), row |-> 0,
                        resp |-> Idle.resp]]
    /\ UNCHANGED <<now, users, projects, tasks, tokens, last,
                   shutdown, dbOpen, listening>>

\* Slot s is at statement pc of handler op.
At(s, op, pc) == inflight[s].pc = pc /\ inflight[s].op = op

\* The handler in slot s goes on to statement pc, with the database `db`.
Goto(s, pc, db) ==
    /\ inflight' = [inflight EXCEPT ![s].pc = pc]
    /\ users' = db.users /\ projects' = db.projects /\ tasks' = db.tasks
    /\ UNCHANGED <<now, tokens, last, ops, shutdown, dbOpen, listening>>

\* The handler in slot s returns what `out` says.
Return(s, out) ==
    /\ inflight' = [inflight EXCEPT ![s].pc = "done", ![s].resp = out.resp]
    /\ users' = out.db.users /\ projects' = out.db.projects /\ tasks' = out.db.tasks
    /\ UNCHANGED <<now, tokens, last, ops, shutdown, dbOpen, listening>>

\* A statement on a closed *sql.DB fails ("sql: database is closed"), and the
\* handler answers 500 with its message for that statement.
DBError(db, message) ==
    Out(db, ErrorResponse(StatusInternalServerError, "Internal Server Error", message))

\* POST /auth/register: the lookup by email (any error of which counts as
\* "no such user"), then the insert.
RegisterBegin(s, body) ==
    Begin(s, "CreateUser", uuidNil, uuidNil, body, "check")

RegisterCheck(s) ==
    /\ At(s, "CreateUser", "check")
    /\ IF dbOpen /\ EmailTaken(DB, inflight[s].body.email)
       THEN Return(s, UserConflict(DB))
       ELSE Goto(s, "insert", DB)

RegisterInsert(s) ==
    /\ At(s, "CreateUser", "insert")
    /\ IF dbOpen
       THEN Return(s, InsertUser(DB, inflight[s].body))
       ELSE Return(s, DBError(DB, "Failed to create user"))

\* POST /projects/:project_id/tasks: the lookup of the caller's project, the
\* insert, and the load of the task for the answer.
CreateTaskBegin(s, hdr, pid, body) ==
    /\ JWTMiddleware(hdr, now).ok
    /\ Begin(s, "CreateTask", GetUserIDFromContext(hdr), pid, body, "check")

CreateTaskCheck(s) ==
    /\ At(s, "CreateTask", "check")
    /\ IF ~dbOpen THEN Return(s, DBError(DB, "Failed to verify project"))
       ELSE IF OwnedProject(DB, inflight[s].caller, inflight[s].id)
       THEN Goto(s, "insert", DB)
       ELSE Return(s, ProjectNotFound(DB))

CreateTaskInsert(s) ==
    /\ At(s, "CreateTask", "insert")
    /\ LET out == IF dbOpen THEN InsertTask(DB, inflight[s].id, inflight[s].body)
                  ELSE DBError(DB, "Failed to create task")
       IN IF out.resp.status = StatusCreated
          THEN /\ inflight' = [inflight EXCEPT ![s].pc = "load",
                                               ![s].row = Len(out.db.tasks)]
               /\ tasks' = out.db.tasks
               /\ UNCHANGED <<now, users, projects, tokens, last, ops,
                              shutdown, dbOpen, listening>>
          ELSE Return(s, out)

CreateTaskLoad(s) ==
    /\ At(s, "CreateTask", "load")
    /\ IF dbOpen
       THEN Return(s, Out(DB, LoadTask(DB, inflight[s].row)))
       ELSE Return(s, DBError(DB, "Failed to load task details"))

\* DELETE /projects/:id: one statement.
DeleteProjectBegin(s, hdr, id) ==
    /\ JWTMiddleware(hdr, now).ok
    /\ Begin(s, "DeleteProject", GetUserIDFromContext(hdr), id, nil, "delete")

DeleteProjectDelete(s) ==
    /\ At(s, "DeleteProject", "delete")
    /\ IF dbOpen
       THEN Return(s, DeleteProject(DB, inflight[s].caller, inflight[s].id, now))
       ELSE Return(s, DBError(DB, "Failed to delete project"))

\* The answer of slot s goes out and the slot is free again.
Reply(s) ==
    /\ inflight[s].pc = "done"
    /\ inflight' = [t \in Slots |->
                       IF t = s THEN Free
                       ELSE IF inflight[t] = Free THEN Free
                       ELSE [inflight[t] EXCEPT !.with = @ \ {s}]]
    /\ UNCHANGED <<now, users, projects, tasks, tokens, last, ops,
                   shutdown, dbOpen, listening>>

RaceRegisterBodies == {RegisterBody(RaceEmail), RegisterBody(Emails[1])}
RaceTaskBodies == {[title |-> "Tea", assignee_id |-> nil]}

NextRace ==
    \/ \E s \in Slots, b \in RaceRegisterBodies : RegisterBegin(s, b)
    \/ \E s \in Slots : RegisterCheck(s)
    \/ \E s \in Slots : RegisterInsert(s)
    \/ \E s \in Slots, h \in Signed, id \in Ids(projects), b \in RaceTaskBodies :
          CreateTaskBegin(s, h, id, b)
    \/ \E s \in Slots : CreateTaskCheck(s)
    \/ \E s \in Slots : CreateTaskInsert(s)
    \/ \E s \in Slots : CreateTaskLoad(s)
    \/ \E s \in Slots, h \in Signed, id \in Ids(projects) : DeleteProjectBegin(s, h, id)
    \/ \E s \in Slots : DeleteProjectDelete(s)
    \/ \E s \in Slots : Reply(s)

SpecRace == InitRace /\ [][NextRace]_vars
\* The requests in slots s and t were in flight at the same time.
Concurrent(s, t) ==
    /\ s # t /\ inflight[s] # Free /\ inflight[t] # Free
    /\ s \in inflight[t].with \/ t \in inflight[s].with

\* The handler in slot s, a register, has returned, and no user row had its
\* email when it came.
FreshRegisterDone(s) ==
    /\ At(s, "CreateUser", "done")
    /\ \A i \in 1..inflight[s].seen : users[i].email # inflight[s].body.email

\* Two registers with the same, new email have run concurrently and returned.
RegisterRace(s, t) ==
    /\ Concurrent(s, t)
    /\ FreshRegisterDone(s) /\ FreshRegisterDone(t)
    /\ inflight[s].body.email = inflight[t].body.email

UsersWithEmail(e) == {i \in Ids(users) : users[i].email = e}

\* C18: when two register requests with the same email run concurrently, at
\* most one user row with that email is created, exactly one request is
\* answered 201 and the other is answered 409, not 500.
C18_LoserGetsConflict ==
    \A s, t \in Slots :
        RegisterRace(s, t) =>
            /\ Cardinality(UsersWithEmail(inflight[s].body.email)) <= 1
            /\ {inflight[s].resp.status, inflight[t].resp.status}
                   = {StatusCreated, StatusConflict}

\* The same with either refusal for the other request: 409 or 500.
C18_OneRowOneCreated ==
    \A s, t \in Slots :
        RegisterRace(s, t) =>
            /\ Cardinality(UsersWithEmail(inflight[s].body.email)) = 1
            /\ \/ /\ inflight[s].resp.status = StatusCreated
                  /\ inflight[t].resp.status \in {StatusConflict, StatusInternalServerError}
               \/ /\ inflight[t].resp.status = StatusCreated
                  /\ inflight[s].resp.status \in {StatusConflict, StatusInternalServerError}

\* The other request has looked the email up after the insert: it got 409.
C18_ConflictWhenCheckedLate ==
    \E s, t \in Slots :
        /\ RegisterRace(s, t)
        /\ inflight[s].resp.status = StatusCreated
        /\ inflight[t].resp.status = StatusConflict
\* C20: in no interleaving does a task come into being in a project its
\* creator does not own: a task row is inserted only by a CreateTask whose
\* caller owns the project of the row, and a CreateTask that has got past
\* its check is its project's owner's. (The check and the insert are separate
\* statements: C20_Witness is the interleaving with DeleteProject.)
C20_NeverInAnothersProject ==
    [][/\ Len(tasks') > Len(tasks) =>
             \E s \in Slots :
                 /\ At(s, "CreateTask", "insert")
                 /\ inflight'[s].row = Len(tasks')
                 /\ Len(tasks') = Len(tasks) + 1
                 /\ tasks'[Len(tasks')].project_id = inflight[s].id
                 /\ projects[inflight[s].id].owner_id = inflight[s].caller
       /\ \A s \in Slots :
             (/\ inflight'[s].pc \in {"insert", "load", "done"}
              /\ inflight'[s].op = "CreateTask"
              /\ inflight'[s].pc = "done" => inflight'[s].resp.status = StatusCreated)
             => projects'[inflight'[s].id].owner_id = inflight'[s].caller]_vars

\* A DeleteProject has deleted the project between the check and the insert
\* of a concurrent CreateTask, which has returned 201: the task is live and
\* its project is deleted.
C20_Witness ==
    \E s, t \in Slots :
        /\ Concurrent(s, t)
        /\ At(s, "CreateTask", "done") /\ inflight[s].resp.status = StatusCreated
        /\ At(t, "DeleteProject", "done") /\ inflight[t].resp.status = StatusOK
        /\ inflight[t].id = inflight[s].id
        /\ inflight[s].row \in Live(tasks)
        /\ tasks[inflight[s].row].project_id = inflight[s].id
        /\ projects[inflight[s].id].deleted_at # nil
        /\ inflight[s].resp.body.data.project = nil
-----------------------------------------------------------------------------
(* The shutdown: the goroutine main starts waits for SIGINT or SIGTERM, closes
   the database and then shuts the server down. *)

\* <-c: the signal has come.
Signal ==
    /\ shutdown = "waiting"
    /\ shutdown' = "closing"
    /\ UNCHANGED <<now, users, projects, tasks, tokens, last, ops,
                   inflight, dbOpen, listening>>

\* sqlDB.Close(): no statement starts on the pool from now on.
CloseDB ==
    /\ shutdown = "closing"
    /\ dbOpen' = FALSE
    /\ shutdown' = "stopping"
    /\ UNCHANGED <<now, users, projects, tasks, tokens, last, ops,
                   inflight, listening>>

\* app.Shutdown() closes the listeners: no request is accepted from now on ...
StopListening ==
    /\ shutdown = "stopping"
    /\ listening' = FALSE
    /\ shutdown' = "draining"
    /\ UNCHANGED <<now, users, projects, tasks, tokens, last, ops,
                   inflight, dbOpen>>

\* ... and returns when the requests in flight have been answered; app.Listen
\* returns and main ends.
Stopped ==
    /\ shutdown = "draining"
    /\ inflight = NoneInFlight
    /\ shutdown' = "done"
    /\ UNCHANGED <<now, users, projects, tasks, tokens, last, ops,
                   inflight, dbOpen, listening>>

NextShutdown ==
    \/ NextRace
    \/ Signal
    \/ CloseDB
    \/ StopListening
    \/ Stopped

SpecShutdown == InitRace /\ [][NextShutdown]_vars

\* The handler in slot s runs a statement in this step.
RunsStatement(s) == s \in Busy /\ inflight'[s].pc # inflight[s].pc

\* The server has stopped serving: it accepts nothing and nothing is in flight.
ServerStopped == ~listening /\ inflight = NoneInFlight

\* C19: on SIGINT or SIGTERM the database connection is closed only after the
\* HTTP server has stopped serving, and no request in flight or accepted
\* during the shutdown runs a statement of its handler on a closed database.
C19_DatabaseClosedLast ==
    [][/\ (dbOpen /\ ~dbOpen') => ServerStopped
       /\ \A s \in Slots : RunsStatement(s) => dbOpen]_vars

\* A request accepted after the database was closed has been answered 500.
C19_ServedOnClosedDatabase ==
    \E s \in Slots :
        /\ ~dbOpen /\ listening
        /\ inflight[s].pc = "done"
        /\ inflight[s].with = {}
        /\ inflight[s].resp.status = StatusInternalServerError

\* The server does stop: app.Shutdown returns with nothing in flight.
C19_ShutdownDrains == shutdown = "done" => ServerStopped /\ ~dbOpen
\* C21: a project row comes into being only in a CreateProject answered 201,
\* with status active and with the identity of the request's token as its
\* owner_id; and no step changes the owner_id of a stored project.
C21_OwnerFixedAtCreation ==
    [][LET r == last'
       IN /\ Len(projects') # Len(projects) =>
                /\ Answered /\ r.handler /\ r.req.op = "CreateProject"
                /\ r.resp.status = StatusCreated
                /\ Len(projects') = Len(projects) + 1
                /\ projects'[Len(projects')].status = ProjectStatusActive
                /\ projects'[Len(projects')].owner_id = r.req.hdr.token.user_id
                /\ r.resp.body.data.owner_id = r.req.hdr.token.user_id
          /\ \A i \in Ids(projects) :
                projects'[i].owner_id = projects[i].owner_id]_vars

\* The second user has created a project, and it is theirs; the first user
\* has projects too.
C21_Witness ==
    /\ last # Idle /\ last.handler /\ last.req.op = "CreateProject"
    /\ last.resp.status = StatusCreated
    /\ CallerOf(last) = 2
    /\ projects[Len(projects)].owner_id = 2
    /\ projects[Len(projects)].status = ProjectStatusActive
\* C22: GetProjects returns live projects of the caller only, each once, its
\* total is the number of the caller's live projects whatever page and limit
\* were asked for, and a page past the last one comes with an empty data list
\* and that same total.
C22_OnlyCallersLiveProjects ==
    (Listed /\ last.req.op = "GetProjects") =>
        LET d == last.resp.body.data
            pg == last.resp.body.pagination
            mine == {i \in Ids(projects) :
                        /\ projects[i].deleted_at = nil
                        /\ projects[i].owner_id = last.req.hdr.token.user_id}
        IN /\ \A k \in 1..Len(d) : d[k].id \in mine /\ d[k].owner_id = CallerOf(last)
           /\ \A k, m \in 1..Len(d) : d[k].id = d[m].id => k = m
           /\ pg.total = Cardinality(mine)
           /\ (pg.page - 1) * pg.limit >= pg.total => d = <<>>

\* The caller has asked for a page past their last one, while another user
\* has a live project and the caller has a deleted one.
C22_Witness ==
    /\ Listed /\ last.req.op = "GetProjects"
    /\ last.req.page = Ptr(3) /\ last.req.limit = Ptr(5)
    /\ last.resp.body.pagination.total = 6
    /\ last.resp.body.data = <<>>
    /\ \E i \in Live(projects) : projects[i].owner_id # CallerOf(last)
    /\ \E i \in Ids(projects) :
          projects[i].owner_id = CallerOf(last) /\ projects[i].deleted_at # nil
\* The database after the step.
DBAfter == [users |-> users', projects |-> projects', tasks |-> tasks']

\* The ids of the tasks an answer lists.
IdsListed(items) == {items[k].id : k \in 1..Len(items)}

\* C23: DeleteTask by the owner of the task's project is answered 200 and
\* deletes that task and nothing else: after it GetTask on the task gives
\* 404, GetProjectTasks and GetProject of its project do not list it, the
\* project's task total is one less, and every other task and every project
\* is as it was.
C23_OwnerDeletesTask ==
    [][LET r == last'
           c == CallerOf(r)
           k == r.req.id
           p == tasks[k].project_id
       IN (/\ Answered /\ r.handler /\ r.req.op = "DeleteTask"
           /\ uuidParse(k) /\ OwnLiveTask(c, k))
          => /\ r.resp.status = StatusOK
             /\ tasks'[k].deleted_at # nil
             /\ \A j \in Ids(tasks) \ {k} : tasks'[j] = tasks[j]
             /\ projects' = projects
             /\ GetTask(DBAfter, c, k).resp.status = StatusNotFound
             /\ k \notin IdsListed(GetProjectTasks(DBAfter, c, p, nil, nil).resp.body.data)
             /\ k \notin IdsListed(GetProject(DBAfter, c, p).resp.body.data.tasks)
             /\ GetProjectTasks(DBAfter, c, p, nil, nil).resp.body.pagination.total
                   = GetProjectTasks(DB, c, p, nil, nil).resp.body.pagination.total - 1]_vars

\* No task is ever deleted.
C23_NoTaskEverDeleted == \A k \in Ids(tasks) : tasks[k].deleted_at = nil
\* Request r carries a status that is not a value of its enum.
OutOfEnum(r) ==
    /\ r.req.op \in {"UpdateProject", "UpdateTask", "UpdateTaskStatus"}
    /\ uuidParse(r.req.id) /\ BodyParser(r.req.body)
    /\ CASE r.req.op = "UpdateProject" ->
               /\ r.req.body.status # nil
               /\ Deref(r.req.body.status) \notin ProjectStatuses
         [] r.req.op = "UpdateTask" ->
               /\ r.req.body.status # nil
               /\ Deref(r.req.body.status) \notin TaskStatuses
         [] OTHER -> r.req.body.status \notin TaskStatuses

\* C24: an update of the caller's project or task that carries a status
\* outside its enum is answered 400, and the stored rows are as they were.
C24_OutOfEnumBadRequest ==
    [][LET r == last'
       IN (Answered /\ r.handler /\ OutOfEnum(r) /\ OnOwnResource(r))
          => /\ r.resp.status = StatusBadRequest
             /\ DBAfter = DB]_vars

\* What the handlers do with it: a status that is present and outside the
\* enum reaches the database, which refuses the row, and the answer is 500;
\* only the empty status of UpdateTaskStatus is stopped by validation.
C24_OutOfEnumIsServerError ==
    [][LET r == last'
       IN (Answered /\ r.handler /\ OutOfEnum(r) /\ OnOwnResource(r))
          => /\ DBAfter = DB
             /\ r.resp.status =
                   IF r.req.op = "UpdateTaskStatus" /\ r.req.body.status = ""
                   THEN StatusBadRequest ELSE StatusInternalServerError]_vars
\* The fields of the stored row a request of r's kind names: those present in
\* its body, and with a status the completed_at the hook derives from it.
FieldsPresent(r) ==
    LET b == r.req.body
        if(c, fs) == IF c THEN fs ELSE {}
    IN IF ~BodyParser(b) THEN {}
       ELSE CASE r.req.op = "UpdateUser" ->
                   if(b.first_name # "", {"first_name"})
                   \cup if(b.is_active # nil, {"is_active"})
              [] r.req.op = "UpdateProject" ->
                   if(b.name # "", {"name"}) \cup if(b.status # nil, {"status"})
              [] r.req.op = "UpdateTask" ->
                   if(b.title # "", {"title"})
                   \cup if(b.assignee_id # nil, {"assignee_id"})
                   \cup if(b.status # nil, {"status", "completed_at"})
              [] OTHER -> {"status", "completed_at"}

\* Table after is table before, but for the fields fs of row id.
OnlyChanges(before, after, id, fs) ==
    /\ Len(after) = Len(before)
    /\ \A i \in Ids(before) :
          IF i = id
          THEN \A f \in DOMAIN before[i] \ fs : after[i][f] = before[i][f]
          ELSE after[i] = before[i]

UpdateOps == {"UpdateUser", "UpdateProject", "UpdateTask", "UpdateTaskStatus"}

\* C25: UpdateUser, UpdateProject, UpdateTask and UpdateTaskStatus change, in
\* the row they name and nowhere else, only the fields present in the request
\* (completed_at follows a status that is present): an empty body changes
\* nothing, UpdateTask never changes project_id, UpdateTaskStatus changes
\* status and completed_at only.
C25_OnlyPresentFields ==
    [][LET r == last'
           fs == FieldsPresent(r)
       IN (Answered /\ r.handler /\ r.req.op \in UpdateOps)
          => /\ OnlyChanges(users, users', r.req.id,
                            IF r.req.op = "UpdateUser" THEN fs ELSE {})
             /\ OnlyChanges(projects, projects', r.req.id,
                            IF r.req.op = "UpdateProject" THEN fs ELSE {})
             /\ OnlyChanges(tasks, tasks', r.req.id,
                            IF r.req.op \in {"UpdateTask", "UpdateTaskStatus"}
                            THEN fs ELSE {})
             /\ r.req.op \in {"UpdateTask", "UpdateTaskStatus"}
                   /\ r.req.id \in Ids(tasks)
                   => tasks'[r.req.id].project_id = tasks[r.req.id].project_id]_vars

\* An UpdateTask with an empty body was answered 200 on a task that has its
\* title and an assignee.
C25_Witness ==
    /\ last.handler /\ last.req.op = "UpdateTask"
    /\ last.resp.status = StatusOK
    /\ last.req.body = [title |-> "", assignee_id |-> nil, status |-> nil]
    /\ tasks[last.req.id].title = "Tea"
    /\ tasks[last.req.id].assignee_id # nil
\* C26: a task's completed_at changes only in a step that takes its status
\* into or out of done: setting done on a done task, or updating other fields
\* of a done task, keeps the completed_at of the first transition to done.
C26_CompletedAtKept ==
    [][\A k \in Ids(tasks) :
          tasks'[k].completed_at # tasks[k].completed_at
          => (tasks[k].status = TaskStatusDone) # (tasks'[k].status = TaskStatusDone)]_vars

\* A done task completed earlier than now has just been set done again, or
\* had another field updated, with success.
C26_DoneAgain ==
    /\ last.handler /\ last.resp.status = StatusOK
    /\ last.req.op \in {"UpdateTask", "UpdateTaskStatus"}
    /\ last.req.id \in Ids(tasks)
    /\ tasks[last.req.id].status = TaskStatusDone
    /\ tasks[last.req.id].completed_at # nil
    /\ Deref(tasks[last.req.id].completed_at) < now

C26_Witness ==
    /\ C26_DoneAgain
    /\ last.req.op = "UpdateTaskStatus"
    /\ last.req.body.status = TaskStatusDone
\* C30: a task that has an assignee has one after every step: CreateTask and
\* UpdateTask set or replace assignee_id, and nothing clears it, the deletion
\* of the assigned user included.
C30_AssigneeNeverCleared ==
    [][\A k \in Ids(tasks) :
          tasks[k].assignee_id # nil => tasks'[k].assignee_id # nil]_vars

\* The user a task is assigned to has been deleted, and the task still names
\* that user.
C30_Witness ==
    /\ last.handler /\ last.req.op = "DeleteUser" /\ last.resp.status = StatusOK
    /\ users[last.req.id].deleted_at # nil
    /\ \E k \in Ids(tasks) : tasks[k].assignee_id = Ptr(last.req.id)

\* An UpdateTask without an assignee was answered 200 on an assigned task.
C30_UpdateWithoutAssignee ==
    /\ last.handler /\ last.req.op = "UpdateTask" /\ last.resp.status = StatusOK
    /\ last.req.body.assignee_id = nil
    /\ tasks[last.req.id].assignee_id # nil
-----------------------------------------------------------------------------
(* Updates served at once: an update handler reads the row, changes its copy
   and saves the copy whole, then loads the row for the answer; the
   statements of the requests in flight interleave. *)

\* ann (1) and bob (2) are registered, ann owns project 1 and its task 1,
\* and ann has logged in.
UpdateDB == InsertTask(RaceDB, 1, [title |-> "Tea", assignee_id |-> nil]).db

InitUpdate ==
    /\ now = 0
    /\ users = UpdateDB.users
    /\ projects = UpdateDB.projects
    /\ tasks = UpdateDB.tasks
    /\ tokens = {LoginHandler(UpdateDB, [email |-> Emails[1], password |-> Password],
                               0).resp.body.data.token}
    /\ last = Idle
    /\ ops = 0
    /\ Running

\* The handler in slot s keeps the row it has read and goes on to save it.
Hold(s, row) ==
    /\ inflight' = [inflight EXCEPT ![s].pc = "save", ![s].row = row]
    /\ UNCHANGED <<now, users, projects, tasks, tokens, last, ops,
                   shutdown, dbOpen, listening>>

\* db.Save(&row) of a row whose primary key is set, after its hooks:
\*   UPDATE ... SET <every column> WHERE id = ? AND deleted_at IS NULL
\* writes the copy over the stored row. When that matches no row (the row has
\* been deleted since the copy was read), GORM goes on to write the copy
\* itself: current versions with INSERT ... ON CONFLICT (id) DO UPDATE SET
\* <every column>, which puts the copy, deleted_at NULL included, in place of
\* the deleted row; earlier ones with a plain INSERT, which fails on the
\* primary key. The repository does not pin the version, so either can be
\* what the build does.
SaveOutcomes(table, id, row) ==
    LET written == [error |-> FALSE, table |-> [table EXCEPT ![id] = row]]
    IN IF table[id].deleted_at = nil THEN {written}
       ELSE {written, [error |-> TRUE, table |-> table]}

\* The copy of the task after the handler's assignments from the request.
TaskFields(op, t0, req) ==
    IF op = "UpdateTaskStatus" THEN [t0 EXCEPT !.status = req.status]
    ELSE LET t1 == IF req.title # "" THEN [t0 EXCEPT !.title = req.title] ELSE t0
             t2 == IF req.assignee_id # nil
                   THEN [t1 EXCEPT !.assignee_id = req.assignee_id] ELSE t1
         IN IF req.status # nil THEN [t2 EXCEPT !.status = Deref(req.status)]
            ELSE t2

\* Joins("JOIN projects ...").Where("tasks.id = ? AND projects.owner_id = ?")
\*   .First(&task)
FindTask(s) ==
    IF ~dbOpen THEN Return(s, DBError(DB, "Failed to fetch task"))
    ELSE IF OwnedTask(DB, inflight[s].caller, inflight[s].id)
    THEN Hold(s, tasks[inflight[s].id])
    ELSE Return(s, TaskNotFound(DB))

\* The assignments, then db.Save(&task).
SaveHeldTask(s, failure) ==
    LET saved == BeforeUpdate(TaskFields(inflight[s].op, inflight[s].row,
                                         inflight[s].body), now)
    IN IF ~dbOpen \/ ~TaskRowAccepted(DB, saved)
       THEN Return(s, DBError(DB, failure))
       ELSE \E o \in SaveOutcomes(tasks, inflight[s].id, saved) :
               IF o.error THEN Return(s, DBError(DB, failure))
               ELSE Goto(s, "load", [DB EXCEPT !.tasks = o.table])

\* Preload("Project").Preload("Assignee").First(&task, task.ID) and the 200.
LoadHeldTask(s, success) ==
    IF dbOpen /\ inflight[s].id \in Live(tasks)
    THEN Return(s, Out(DB, SuccessResponse(StatusOK, success,
                                           TaskToResponse(DB, inflight[s].id, TRUE))))
    ELSE Return(s, DBError(DB, "Failed to load task details"))

\* PUT /tasks/:id
UpdateTaskBegin(s, hdr, id, body) ==
    /\ JWTMiddleware(hdr, now).ok
    /\ Begin(s, "UpdateTask", GetUserIDFromContext(hdr), id, body, "read")

UpdateTaskRead(s) == At(s, "UpdateTask", "read") /\ FindTask(s)

UpdateTaskSave(s) ==
    At(s, "UpdateTask", "save") /\ SaveHeldTask(s, "Failed to update task")

UpdateTaskLoad(s) ==
    At(s, "UpdateTask", "load") /\ LoadHeldTask(s, "Task updated successfully")

\* PATCH /tasks/:id/status
UpdateTaskStatusBegin(s, hdr, id, body) ==
    /\ JWTMiddleware(hdr, now).ok
    /\ Begin(s, "UpdateTaskStatus", GetUserIDFromContext(hdr), id, body, "read")

UpdateTaskStatusRead(s) == At(s, "UpdateTaskStatus", "read") /\ FindTask(s)

UpdateTaskStatusSave(s) ==
    /\ At(s, "UpdateTaskStatus", "save")
    /\ SaveHeldTask(s, "Failed to update task status")

UpdateTaskStatusLoad(s) ==
    /\ At(s, "UpdateTaskStatus", "load")
    /\ LoadHeldTask(s, "Task status updated successfully")

\* PUT /projects/:id
UpdateProjectBegin(s, hdr, id, body) ==
    /\ JWTMiddleware(hdr, now).ok
    /\ Begin(s, "UpdateProject", GetUserIDFromContext(hdr), id, body, "read")

\* Where("id = ? AND owner_id = ?", id, caller).First(&project)
UpdateProjectRead(s) ==
    /\ At(s, "UpdateProject", "read")
    /\ IF ~dbOpen THEN Return(s, DBError(DB, "Failed to fetch project"))
       ELSE IF OwnedProject(DB, inflight[s].caller, inflight[s].id)
       THEN Hold(s, projects[inflight[s].id])
       ELSE Return(s, ProjectNotFound(DB))

\* The assignments, then db.Save(&project).
UpdateProjectSave(s) ==
    /\ At(s, "UpdateProject", "save")
    /\ LET req == inflight[s].body
           p0 == inflight[s].row
           p1 == IF req.name # "" THEN [p0 EXCEPT !.name = req.name] ELSE p0
           p2 == IF req.status # nil THEN [p1 EXCEPT !.status = Deref(req.status)]
                 ELSE p1
       IN IF ~dbOpen \/ p2.status \notin ProjectStatuses
          THEN Return(s, DBError(DB, "Failed to update project"))
          ELSE \E o \in SaveOutcomes(projects, inflight[s].id, p2) :
                  IF o.error THEN Return(s, DBError(DB, "Failed to update project"))
                  ELSE Goto(s, "load", [DB EXCEPT !.projects = o.table])

\* Preload("Owner").First(&project, project.ID) and the 200.
UpdateProjectLoad(s) ==
    /\ At(s, "UpdateProject", "load")
    /\ IF dbOpen /\ inflight[s].id \in Live(projects)
       THEN Return(s, Out(DB, SuccessResponse(StatusOK, "Project updated successfully",
                              ProjectToResponse(DB, inflight[s].id, TRUE, FALSE))))
       ELSE Return(s, DBError(DB, "Failed to load project details"))

RaceTaskUpdateBodies == {[title |-> "Tax", assignee_id |-> nil, status |-> nil]}
RaceTaskStatusBodies == {[status |-> TaskStatusDone], [status |-> TaskStatusTodo]}
RaceProjectUpdateBodies == {[name |-> "Beta", status |-> nil]}

\* The slots are interchangeable: a request is taken up in the first free
\* one, and at most MaxUpdateRequests are taken up.
NextSlot ==
    {s \in Slots : /\ ops < MaxUpdateRequests
                   /\ inflight[s] = Free
                   /\ \A t \in Slots : t < s => inflight[t] # Free}

NextUpdate ==
    \/ \E s \in NextSlot, h \in Signed, id \in Ids(tasks), b \in RaceTaskUpdateBodies :
          UpdateTaskBegin(s, h, id, b)
    \/ \E s \in Slots : UpdateTaskRead(s)
    \/ \E s \in Slots : UpdateTaskSave(s)
    \/ \E s \in Slots : UpdateTaskLoad(s)
    \/ \E s \in NextSlot, h \in Signed, id \in Ids(tasks), b \in RaceTaskStatusBodies :
          UpdateTaskStatusBegin(s, h, id, b)
    \/ \E s \in Slots : UpdateTaskStatusRead(s)
    \/ \E s \in Slots : UpdateTaskStatusSave(s)
    \/ \E s \in Slots : UpdateTaskStatusLoad(s)
    \/ \E s \in NextSlot, h \in Signed, id \in Ids(projects), b \in RaceProjectUpdateBodies :
          UpdateProjectBegin(s, h, id, b)
    \/ \E s \in Slots : UpdateProjectRead(s)
    \/ \E s \in Slots : UpdateProjectSave(s)
    \/ \E s \in Slots : UpdateProjectLoad(s)
    \/ \E s \in NextSlot, h \in Signed, id \in Ids(projects) :
          DeleteProjectBegin(s, h, id)
    \/ \E s \in Slots : DeleteProjectDelete(s)
    \/ \E s \in Slots : Reply(s)

SpecUpdate == InitUpdate /\ [][NextUpdate]_vars
\* Exactly two requests were taken up and both have returned 200: in slot s
\* an UpdateTaskStatus to done, in slot t an UpdateTask of the title alone,
\* both on task k.
StatusAndTitleDone(s, t, k) ==
    /\ ops = 2
    /\ inflight[s].pc = "done" /\ inflight[t].pc = "done"
    /\ inflight[s].op = "UpdateTaskStatus" /\ inflight[s].id = k
    /\ inflight[s].body.status = TaskStatusDone
    /\ inflight[s].resp.status = StatusOK
    /\ inflight[t].op = "UpdateTask" /\ inflight[t].id = k
    /\ inflight[t].body = [title |-> "Tax", assignee_id |-> nil, status |-> nil]
    /\ inflight[t].resp.status = StatusOK

\* C27: when an UpdateTaskStatus setting done and an UpdateTask changing only
\* the title run at once on the same task, the stored row has both the new
\* status and the new title once both have returned, whatever the order of
\* their reads and saves.
C27_BothModificationsKept ==
    \A s, t \in Slots, k \in Ids(tasks) :
        (StatusAndTitleDone(s, t, k) /\ Concurrent(s, t))
        => /\ tasks[k].status = TaskStatusDone
           /\ tasks[k].title = "Tax"

\* Served one after the other, the two leave both modifications.
C27_BothKeptInTurn ==
    \A s, t \in Slots, k \in Ids(tasks) :
        (StatusAndTitleDone(s, t, k) /\ ~Concurrent(s, t))
        => /\ tasks[k].status = TaskStatusDone
           /\ tasks[k].title = "Tax"

\* Both answered 200, and the row has lost one of the two modifications: the
\* save that came second wrote back what its handler had read before the
\* first.
C27_LostUpdate ==
    \E s, t \in Slots, k \in Ids(tasks) :
        /\ StatusAndTitleDone(s, t, k) /\ Concurrent(s, t)
        /\ \/ tasks[k].status = TaskStatusTodo /\ tasks[k].title = "Tax"
           \/ tasks[k].status = TaskStatusDone /\ tasks[k].title = "Tea"
\* C28: in every state reachable under any interleaving of the reads and
\* saves of UpdateTask and UpdateTaskStatus requests served at once, a task's
\* completed_at is set exactly when its status is done.
C28_CompletedIffDone ==
    \A k \in Ids(tasks) :
        (tasks[k].completed_at # nil) <=> (tasks[k].status = TaskStatusDone)

\* A save of a copy read before another request's save has put the task's
\* status back from done: both requests have returned 200, the status update
\* answered done, and the stored row is todo again with no completed_at.
C28_Witness ==
    \E s, t \in Slots, k \in Ids(tasks) :
        /\ StatusAndTitleDone(s, t, k) /\ Concurrent(s, t)
        /\ inflight[s].resp.body.data.status = TaskStatusDone
        /\ inflight[s].resp.body.data.completed_at # nil
        /\ tasks[k].status = TaskStatusTodo
        /\ tasks[k].completed_at = nil
\* Every row of `before` that is deleted is deleted in `after`.
StayDeleted(before, after) ==
    \A i \in Ids(before) : before[i].deleted_at # nil => after[i].deleted_at # nil

\* C29: a user, project or task that has been deleted stays deleted in every
\* step, under any interleaving of the statements of the requests served at
\* once, an update whose read came before the delete and whose save comes
\* after it included.
C29_DeletionPermanent ==
    [][/\ StayDeleted(users, users')
       /\ StayDeleted(projects, projects')
       /\ StayDeleted(tasks, tasks')]_vars

\* The one step that makes a deleted row live again: the save of an
\* UpdateProject that read the project before it was deleted.
C29_OnlyStaleSaveRevives ==
    [][/\ StayDeleted(users, users')
       /\ StayDeleted(tasks, tasks')
       /\ \A i \in Ids(projects) :
             (projects[i].deleted_at # nil /\ projects'[i].deleted_at = nil)
             => \E s \in Slots :
                   /\ At(s, "UpdateProject", "save") /\ inflight[s].id = i
                   /\ inflight[s].row.deleted_at = nil
                   /\ inflight'[s].pc = "load"]_vars

\* A DeleteProject was answered 200, and the project is live, with the name
\* an UpdateProject served at the same time gave it.
C29_Revived ==
    \E s, t \in Slots :
        /\ Concurrent(s, t)
        /\ inflight[s].op = "DeleteProject" /\ inflight[s].pc = "done"
        /\ inflight[s].resp.status = StatusOK
        /\ inflight[t].op = "UpdateProject" /\ inflight[t].id = inflight[s].id
        /\ inflight[t].pc = "done" /\ inflight[t].resp.status = StatusOK
        /\ projects[inflight[s].id].deleted_at = nil
        /\ projects[inflight[s].id].name = "Beta"
====
